---- MODULE Spec2Model ----
(***************************************************************************)
(* A model of perfnum (manage / compute / report), version 1.0 of the      *)
(* sources: the shared-memory method (manage m, compute m), the socket     *)
(* method (manage s, compute s, report s) and the pipes method (manage p,  *)
(* compute p, report p).  One method runs at a time; each has its own      *)
(* variables and its own specifications: SpecShmem, SpecShmemWide and      *)
(* SpecShmemSolo, SpecSock, SpecSockPair, SpecSockSolo and                 *)
(* SpecSockSoloFair, SpecPipes.                                            *)
(***************************************************************************)
EXTENDS Integers, Sequences, FiniteSets, TLC

(***************************************************************************)
(* Program constants.                                                      *)
(***************************************************************************)
NPERFNUMS == 20
NPROCS == 20
NASSIGN == 1000
SPERFNUMS == 5
EXIT_SUCCESS == 0
SIGHUP == 1
SIGINT == 2
SIGQUIT == 3
PID_SERVER == 0
PID_CLIENT == 1
EXIT_FAILURE == 1

(***************************************************************************)
(* Bounds of the model.                                                    *)
(*   NWorkers  compute processes started in the shared-memory method       *)
(*   SemSize   bytes of a sem_t that the model keeps, from its first byte: *)
(*             in glibc on little-endian Linux the counter starts there,   *)
(*             least significant byte first (sizeof(sem_t) is 16 or 32);   *)
(*             a run is followed up to a carry out of the bytes kept       *)
(*   MaxRepeats  how many candidates next_test may return a second time    *)
(*             in a run that is followed                                   *)
(*   MaxSignals  signals delivered from outside (terminal, kill) in a run  *)
(*   NSockWorkers  compute processes started in the socket method          *)
(*   NReporters  report processes started in the socket method             *)
(***************************************************************************)
NWorkers == 2
SemSize == 1
MaxRepeats == 1
MaxSignals == 1
MaxInFlight == 2
NSockWorkers == 2
NReporters == 2
SmallTable == 1

Signals == {SIGHUP, SIGINT, SIGQUIT}

(***************************************************************************)
(* is_perfect_number: the sum of the divisors i of n with 1 <= i < n       *)
(* equals n.  For n = 0 the loop body never runs and 0 = 0 holds.          *)
(***************************************************************************)
RECURSIVE SumSet(_)
SumSet(S) == IF S = {} THEN 0
             ELSE LET x == CHOOSE y \in S : TRUE IN x + SumSet(S \ {x})

Divisors(n) == {i \in 1..(n - 1) : n % i = 0}

is_perfect_number(n) == SumSet(Divisors(n)) = n

(***************************************************************************)
(*                        SHARED MEMORY METHOD                             *)
(***************************************************************************)
VARIABLES
  shmLimit,         \* *res->limit, the header word written by shmem_init
  region,           \* the bytes from res->bitmap up to res->perfect_numbers,
                    \* bit by bit: the bitmap, then the bytes of
                    \* perfect_numbers_sem
  bitmapSem,        \* value of *res->bitmap_sem
  perfect_numbers,  \* res->perfect_numbers[0 .. NPERFNUMS-1]
  processes,        \* res->processes[0 .. NPROCS-1]
  live,             \* the shared memory object exists (not yet unlinked)
  mexit,            \* manage: exit_status
  mpc,              \* manage: "start", "created", "sized" (in shmem_init),
                    \* "loop" or "exited"
  cpc,              \* compute: position in shmem_loop
  cp,               \* compute: index of the slot p points to
  ccur,             \* compute: scan position (addr - bitmap) * 8 + i
  ctest,            \* compute: test
  ci,               \* compute: i in shmem_report
  cexit,            \* compute: exit_status
  nreturned,        \* history: how often next_test returned each candidate
  slotWrites,       \* history: how often each result slot was written
  nsig,             \* history: signals delivered from outside so far
  shmSize,          \* size in bytes of the shared memory object
  mlimit,           \* manage: limit of shmem_init, atoi(argv[2])
  mres,             \* manage: struct shmem_res, as offsets from res->addr
  cres              \* compute: struct shmem_res, as offsets from res->addr

shmVars == <<shmLimit, region, bitmapSem, perfect_numbers, processes, live,
             mexit, mpc, cpc, cp, ccur, ctest, ci, cexit, nreturned,
             slotWrites, nsig, shmSize, mlimit, mres, cres>>

\* Socket method: manage s <limit>, compute s <address>, report s <address> [-k]
VARIABLES
  res,        \* struct sock_res of manage: limit, highest_assigned, perfnums
              \* (nperfnums is its length), notify, done, missed_some,
              \* clients, listen, allfds
  spc,        \* where manage is: "select", "accept", "cleanup", "exited"
  sexit,      \* exit_status of manage
  backlog,    \* connections made and not yet accepted
  toSrv,      \* per client, the packets sent to manage and not yet read
  toCli,      \* per client, the packets sent by manage and not yet read
  cclosed,    \* per client, the client has closed its descriptor
  sclosed,    \* per client, manage has closed the connection
  kpc,        \* per client, where the process is
  kexit,      \* per client, exit_status of the process
  kstatus,    \* per client, the status the process exited with, -1 before
  wi,         \* per compute, i of the for loop of sock_loop
  wend,       \* per compute, p.range.end
  rkill,      \* per report, -k was given
  rprinted,   \* per report, the perfect numbers printed
  granted,    \* history: the RANGE packets manage has sent
  nreplayed,  \* history: PERFNUM packets sent on the last NOTIFY accepted
  refused,    \* history: the clients whose NOTIFY was answered with REFUSE
  ssig        \* signals delivered so far

sockVars == <<res, spc, sexit, backlog, toSrv, toCli, cclosed, sclosed, kpc,
              kexit, kstatus, wi, wend, rkill, rprinted, granted, nreplayed,
              refused, ssig>>

\* Pipe method: manage p <limit> <nprocs>, the compute processes it spawns
\* and report p [-k]
VARIABLES
  pres,       \* struct pipe_res of manage: limit, nprocs, perfnums
              \* (nperfnums is its length), compute_pids
  ppc,        \* where manage is: "init", "open", "loop", "wait", "cleanup",
              \* "collect", "reap", "exited"
  pexit,      \* exit_status of manage
  body_count, \* body_count of pipe_report
  pwait,      \* the pid manage waits for in waitpid, -1 when it does not
  pstatus,    \* the status manage exited with, -1 before
  pipe,       \* compute_pipe: the packets written and not yet read
  fifo,       \* the FIFO to report: the packets written and not yet read
  fifoEnd,    \* the read end of the FIFO: "none", "open", "closed"
  qpc,        \* per compute, where the process is
  qargs,      \* per compute, start and end as given on its command line
  qi,         \* per compute, i of the for loop of pipe_loop
  qexit,      \* per compute, exit_status of the process
  tpc,        \* where report is: "start", "read", "exited"
  texit,      \* exit_status of report
  tmanage,    \* the pid report loaded from the pid file
  tprinted,   \* the perfect numbers report printed
  pclosed,    \* history: the pids whose CLOSED packet manage has handled
  pdone,      \* history: the pids whose DONE packet manage has handled
  psig        \* signals delivered so far

pipeVars == <<pres, ppc, pexit, body_count, pwait, pstatus, pipe, fifo, fifoEnd, qpc, qargs,
              qi, qexit, tpc, texit, tmanage, tprinted, pclosed, pdone, psig>>

\* A stream between two processes (the pipe, the FIFO or a connection), as
\* the 4-byte words of the packets written to it
VARIABLES
  wire,       \* the words written to the stream and not yet read
  got         \* what the last get_packet gave its caller: n, the words read
              \* (the return value divided by 4), and p, the packet

vars == <<shmVars, sockVars, pipeVars, wire, got>>

(***************************************************************************)
(* One method runs at a time: the state of a method that is not in use.    *)
(***************************************************************************)
ShmOff ==
  /\ shmLimit = 0
  /\ region = <<>>
  /\ bitmapSem = 0
  /\ perfect_numbers = <<>>
  /\ processes = <<>>
  /\ live = FALSE
  /\ mexit = EXIT_SUCCESS
  /\ mpc = "off"
  /\ cpc = <<>>
  /\ cp = <<>>
  /\ ccur = <<>>
  /\ ctest = <<>>
  /\ ci = <<>>
  /\ cexit = <<>>
  /\ nreturned = <<>>
  /\ slotWrites = <<>>
  /\ nsig = 0
  /\ shmSize = 0
  /\ mlimit = 0
  /\ mres = <<>>
  /\ cres = <<>>

\* no stream is looked at word by word
PktOff ==
  /\ wire = <<>>
  /\ got = [n |-> 0, p |-> <<0, 0, 0>>]

SockOff ==
  /\ res = <<>>
  /\ spc = "off"
  /\ sexit = EXIT_SUCCESS
  /\ backlog = <<>>
  /\ toSrv = <<>>
  /\ toCli = <<>>
  /\ cclosed = <<>>
  /\ sclosed = <<>>
  /\ kpc = <<>>
  /\ kexit = <<>>
  /\ kstatus = <<>>
  /\ wi = <<>>
  /\ wend = <<>>
  /\ rkill = <<>>
  /\ rprinted = <<>>
  /\ granted = <<>>
  /\ nreplayed = 0
  /\ refused = {}
  /\ ssig = 0

PipeOff ==
  /\ pres = <<>>
  /\ ppc = "off"
  /\ pexit = EXIT_SUCCESS
  /\ body_count = 0
  /\ pwait = -1
  /\ pstatus = -1
  /\ pipe = <<>>
  /\ fifo = <<>>
  /\ fifoEnd = "none"
  /\ qpc = <<>>
  /\ qargs = <<>>
  /\ qi = <<>>
  /\ qexit = <<>>
  /\ tpc = "off"
  /\ texit = EXIT_SUCCESS
  /\ tmanage = -1
  /\ tprinted = <<>>
  /\ pclosed = {}
  /\ pdone = {}
  /\ psig = 0

\* limits given to manage m: SpecShmem draws from ShmLimits, SpecShmemWide
\* from WideLimits and SpecShmemSolo, where the compute processes of Solo
\* are the only ones started, from SoloLimits
ShmLimits == {6}
WideLimits == {20}
SoloLimits == {1, 6, 28}
Solo == {1}

Workers == 1..NWorkers

\* the quotient of int division in C, which truncates toward zero
CDiv(a, b) == IF a >= 0 THEN a \div b ELSE -((-a) \div b)

\* bitmap_size = limit / 8 + 1
BitmapSize(limit) == CDiv(limit, 8) + 1

\* number of bits between res->bitmap and res->perfect_numbers:
\* perfect_numbers_sem = bitmap + bitmap_size, perfect_numbers = the byte
\* after the semaphore
ScanBits(limit) == 8 * (BitmapSize(limit) + SemSize)

\* index of the first bit of perfect_numbers_sem in the scanned bytes
SemBase(limit) == 8 * BitmapSize(limit)

\* bits of the counter word of a semaphore
ValueBits == IF 8 * SemSize < 32 THEN 8 * SemSize ELSE 32

SemBitsOf(limit) == SemBase(limit)..(SemBase(limit) + ValueBits - 1)

\* the counter of perfect_numbers_sem is positive
PerfSemPositive == \E k \in SemBitsOf(shmLimit) : region[k] = 1

\* the counter equals SEM_VALUE_MAX = 2^31 - 1; the bytes kept must hold the
\* whole counter word for that
PerfSemAtMax ==
  LET top == SemBase(shmLimit) + ValueBits - 1
  IN  /\ ValueBits = 32
      /\ region[top] = 0
      /\ \A k \in SemBitsOf(shmLimit) \ {top} : region[k] = 1

\* a sem_post now stays within the bytes kept
PerfSemRoom == \E k \in SemBitsOf(shmLimit) : region[k] = 0

\* sem_wait on a positive counter: subtract one from the counter word
SemDec(reg, limit) ==
  LET ones == {k \in SemBitsOf(limit) : reg[k] = 1}
      j == CHOOSE k \in ones : \A m \in ones : k <= m
  IN  [k \in DOMAIN reg |->
         IF k \in SemBitsOf(limit) /\ k < j THEN 1
         ELSE IF k = j THEN 0 ELSE reg[k]]

\* sem_post: add one to the counter word
SemInc(reg, limit) ==
  LET zeros == {k \in SemBitsOf(limit) : reg[k] = 0}
      j == CHOOSE k \in zeros : \A m \in zeros : k <= m
  IN  [k \in DOMAIN reg |->
         IF k \in SemBitsOf(limit) /\ k < j THEN 0
         ELSE IF k = j THEN 1 ELSE reg[k]]

\* sem_init(res->perfect_numbers_sem, 1, 1) on the zero-filled object
InitRegion(limit) ==
  [k \in 0..(ScanBits(limit) - 1) |-> IF k = SemBase(limit) THEN 1 ELSE 0]

\* the for loops of next_test from position from: the first bit that reads 0
FirstZero(reg, from) ==
  LET zeros == {k \in DOMAIN reg : k >= from /\ reg[k] = 0}
  IN  IF zeros = {} THEN -1
      ELSE CHOOSE k \in zeros : \A m \in zeros : k <= m

\* next_test of report: the candidate of the first bit that reads 0 from
\* res->bitmap up to res->perfect_numbers, -1 when there is none; nothing is
\* written
report_next_test(reg) ==
  LET k == FirstZero(reg, 0) IN IF k = -1 THEN -1 ELSE k + 1

\* the for loop of shmem_report: the first slot that holds 0
FirstEmptySlot(tab) ==
  LET empty == {i \in DOMAIN tab : tab[i] = 0}
  IN  IF empty = {} THEN -1
      ELSE CHOOSE i \in empty : \A m \in empty : i <= m

\* sizeof(int), sizeof(pid_t) and sizeof(struct process), three ints
SizeofInt == 4
SizeofPid == 4
SizeofProcess == 12

\* a total size that counts one semaphore only
LoadTotalSizeShort(limit) ==
  SizeofPid + SizeofInt + SemSize + BitmapSize(limit)
    + NPERFNUMS * SizeofInt + NPROCS * SizeofProcess

\* shmem_load: total_size for the limit read from the object
LoadTotalSize(limit) ==
  SizeofPid + SizeofInt + (2 * SemSize) + BitmapSize(limit)
    + NPERFNUMS * SizeofInt + NPROCS * SizeofProcess

\* shmem_init: total_size for the limit of the command line
InitTotalSize(limit) ==
  SizeofPid + SizeofInt + (2 * SemSize) + BitmapSize(limit)
    + NPERFNUMS * SizeofInt + NPROCS * SizeofProcess

\* shmem_init: the pointers of res after shmem_mount, each set from the one
\* before, as byte offsets from res->addr
InitLayout(limit) ==
  LET bitmap_size == BitmapSize(limit)
      manageAt == SizeofInt
      bitmapSemAt == manageAt + SizeofPid
      bitmapAt == bitmapSemAt + SemSize
      perfSemAt == bitmapAt + bitmap_size
      perfnumsAt == perfSemAt + SemSize
      processesAt == perfnumsAt + NPERFNUMS * SizeofInt
  IN  [limit |-> 0, manage |-> manageAt, bitmap_sem |-> bitmapSemAt,
       bitmap |-> bitmapAt, perfect_numbers_sem |-> perfSemAt,
       perfect_numbers |-> perfnumsAt, processes |-> processesAt,
       end |-> processesAt + NPROCS * SizeofProcess]

\* shmem_load: the pointers of res after mmap, each set from the one before,
\* as byte offsets from res->addr
LoadLayout(limit) ==
  LET bitmap_size == BitmapSize(limit)
      manageAt == SizeofInt
      bitmapSemAt == manageAt + SizeofPid
      bitmapAt == bitmapSemAt + SemSize
      perfSemAt == bitmapAt + bitmap_size
      perfnumsAt == perfSemAt + SemSize
      processesAt == perfnumsAt + NPERFNUMS * SizeofInt
  IN  [limit |-> 0, manage |-> manageAt, bitmap_sem |-> bitmapSemAt,
       bitmap |-> bitmapAt, perfect_numbers_sem |-> perfSemAt,
       perfect_numbers |-> perfnumsAt, processes |-> processesAt,
       end |-> processesAt + NPROCS * SizeofProcess]

\* struct shmem_res before shmem_init or shmem_load has filled it
NoRes == [limit |-> -1, manage |-> -1, bitmap_sem |-> -1, bitmap |-> -1,
          perfect_numbers_sem |-> -1, perfect_numbers |-> -1,
          processes |-> -1, end |-> -1]

\* the state after shmem_init with the limit given on the command line, for
\* a result table of the given number of slots
ShmStartWith(limit, slots) ==
  /\ shmSize = InitTotalSize(limit)
  /\ mlimit = limit
  /\ mres = InitLayout(limit)
  /\ cres = [w \in Workers |-> NoRes]
  /\ shmLimit = limit
  /\ region = InitRegion(shmLimit)
  /\ bitmapSem = 1
  /\ perfect_numbers = [i \in 0..(slots - 1) |-> 0]
  /\ processes = [i \in 0..(NPROCS - 1) |-> [pid |-> -1, found |-> 0, tested |-> 0]]
  /\ live = TRUE
  /\ mexit = EXIT_SUCCESS
  /\ mpc = "loop"
  /\ cpc = [w \in Workers |-> "init"]
  /\ cp = [w \in Workers |-> 0]
  /\ ccur = [w \in Workers |-> 0]
  /\ ctest = [w \in Workers |-> 0]
  /\ ci = [w \in Workers |-> 0]
  /\ cexit = [w \in Workers |-> EXIT_SUCCESS]
  /\ nreturned = [n \in 1..ScanBits(shmLimit) |-> 0]
  /\ slotWrites = [i \in 0..(slots - 1) |-> 0]
  /\ nsig = 0

\* the state after shmem_init: the result table has NPERFNUMS slots
ShmStart(limit) == ShmStartWith(limit, NPERFNUMS)

ShmInit == (\E limit \in ShmLimits : ShmStart(limit)) /\ SockOff /\ PipeOff /\ PktOff

ShmInitWide ==
  (\E limit \in WideLimits : ShmStart(limit)) /\ SockOff /\ PipeOff /\ PktOff

ShmInitSolo ==
  (\E limit \in SoloLimits : ShmStart(limit)) /\ SockOff /\ PipeOff /\ PktOff

\* candidates that next_test has returned more than once
Repeats == Cardinality({n \in DOMAIN nreturned : nreturned[n] > 1})

(***************************************************************************)
(* compute m: main, shmem_load, shmem_loop, next_test, shmem_report        *)
(***************************************************************************)

\* values the int limit of shmem_load can hold when read gave it no bytes:
\* it is not initialized; the last one makes total_size 0
Garbage == {0, 1, -8 * LoadTotalSize(0)}

\* shmem_load, called by main: shm_open without O_CREAT fails when the object
\* does not exist; read of the limit (no bytes from an object of size 0);
\* the test of total_size against lseek(SEEK_END); mmap, which fails for a
\* length of 0; then the pointers of res.  On failure compute exits.
ShmemLoad(w) ==
  /\ cpc[w] = "init"
  /\ \E g \in Garbage :
       LET limit == IF shmSize >= SizeofInt THEN shmLimit ELSE g
           total_size == LoadTotalSize(limit)
           loaded == live /\ total_size = shmSize /\ total_size > 0
       IN  /\ cpc' = [cpc EXCEPT ![w] = IF loaded THEN "insert" ELSE "exited"]
           /\ cres' = [cres EXCEPT ![w] = IF loaded THEN LoadLayout(limit) ELSE @]
  /\ cp' = [cp EXCEPT ![w] = 0]
  /\ UNCHANGED <<shmSize, mlimit, mres>>
  /\ UNCHANGED <<shmLimit, region, bitmapSem, perfect_numbers, processes,
                 live, mexit, mpc, ccur, ctest, ci, cexit, nreturned,
                 slotWrites, nsig>>
  /\ UNCHANGED <<sockVars, pipeVars, wire, got>>

\* shmem_loop: one pass of the roster loop, the test p->pid == -1
RosterScan(w) ==
  /\ cpc[w] = "insert"
  /\ IF cp[w] = NPROCS
     THEN \* set == false: "Too many processes already", return
          /\ cpc' = [cpc EXCEPT ![w] = "exited"]
          /\ cp' = cp
     ELSE IF processes[cp[w]].pid = -1
     THEN /\ cpc' = [cpc EXCEPT ![w] = "insert_write"]
          /\ cp' = cp
     ELSE /\ cp' = [cp EXCEPT ![w] = cp[w] + 1]
          /\ cpc' = cpc
  /\ UNCHANGED <<shmSize, mlimit, mres, cres>>
  /\ UNCHANGED <<shmLimit, region, bitmapSem, perfect_numbers, processes,
                 live, mexit, mpc, ccur, ctest, ci, cexit, nreturned,
                 slotWrites, nsig>>
  /\ UNCHANGED <<sockVars, pipeVars, wire, got>>

\* a roster write that also fills the slot after i
InsertSelfTwice(procs, i, w) ==
  [k \in DOMAIN procs |->
     IF k = i \/ k = (i + 1) % NPROCS
     THEN [pid |-> w, found |-> 0, tested |-> 0] ELSE procs[k]]

\* shmem_loop: the roster after p->pid = getpid(); p->found = 0;
\* p->tested = 0 for the slot i that p points to
InsertSelf(procs, i, w) ==
  [procs EXCEPT ![i] = [pid |-> w, found |-> 0, tested |-> 0]]

\* shmem_loop: p->pid = getpid(); p->found = 0; p->tested = 0
RosterWrite(w) ==
  /\ cpc[w] = "insert_write"
  /\ processes' = InsertSelf(processes, cp[w], w)
  /\ cpc' = [cpc EXCEPT ![w] = "scan"]
  /\ ccur' = [ccur EXCEPT ![w] = 0]
  /\ UNCHANGED <<shmSize, mlimit, mres, cres>>
  /\ UNCHANGED <<shmLimit, region, bitmapSem, perfect_numbers, live, mexit,
                 mpc, cp, ctest, ci, cexit, nreturned, slotWrites, nsig>>
  /\ UNCHANGED <<sockVars, pipeVars, wire, got>>

\* next_test: the scan without the semaphore up to the first bit read as 0;
\* none left: return -1, and shmem_loop leaves its while loop
Scan(w) ==
  /\ cpc[w] = "scan"
  /\ LET k == FirstZero(region, ccur[w])
     IN  IF k = -1
         THEN /\ ctest' = [ctest EXCEPT ![w] = -1]
              /\ cpc' = [cpc EXCEPT ![w] = "leave"]
              /\ ccur' = ccur
         ELSE /\ ccur' = [ccur EXCEPT ![w] = k]
              /\ cpc' = [cpc EXCEPT ![w] = "wait"]
              /\ ctest' = ctest
  /\ UNCHANGED <<shmSize, mlimit, mres, cres>>
  /\ UNCHANGED <<shmLimit, region, bitmapSem, perfect_numbers, processes,
                 live, mexit, mpc, cp, ci, cexit, nreturned, slotWrites, nsig>>
  /\ UNCHANGED <<sockVars, pipeVars, wire, got>>

\* next_test: sem_wait(res->bitmap_sem)
SemWaitBitmap(w) ==
  /\ cpc[w] = "wait"
  /\ bitmapSem > 0
  /\ bitmapSem' = bitmapSem - 1
  /\ cpc' = [cpc EXCEPT ![w] = "locked"]
  /\ UNCHANGED <<shmSize, mlimit, mres, cres>>
  /\ UNCHANGED <<shmLimit, region, perfect_numbers, processes, live, mexit,
                 mpc, cp, ccur, ctest, ci, cexit, nreturned, slotWrites, nsig>>
  /\ UNCHANGED <<sockVars, pipeVars, wire, got>>

\* the bit next_test sets once it holds the semaphore and the bit reads 0
ClaimBit(reg, k) == [reg EXCEPT ![k] = 1]

\* next_test with the semaphore held: the second test of the bit, SET_BIT,
\* test = index + 1, sem_post(res->bitmap_sem), then return test (addr and i
\* end with the call) or go on with the next bit
Recheck(w) ==
  /\ cpc[w] = "locked"
  /\ (region[ccur[w]] = 0 /\ nreturned[ccur[w] + 1] > 0) => Repeats < MaxRepeats
  /\ bitmapSem' = bitmapSem + 1
  /\ IF region[ccur[w]] = 0
     THEN /\ region' = ClaimBit(region, ccur[w])
          /\ ctest' = [ctest EXCEPT ![w] = ccur[w] + 1]
          /\ nreturned' = [nreturned EXCEPT ![ccur[w] + 1] = @ + 1]
          /\ ccur' = [ccur EXCEPT ![w] = 0]
          /\ cpc' = [cpc EXCEPT ![w] = "test"]
     ELSE /\ cpc' = [cpc EXCEPT ![w] = "scan"]
          /\ ccur' = [ccur EXCEPT ![w] = ccur[w] + 1]
          /\ UNCHANGED <<region, ctest, nreturned>>
  /\ UNCHANGED <<shmSize, mlimit, mres, cres>>
  /\ UNCHANGED <<shmLimit, perfect_numbers, processes, live, mexit, mpc, cp,
                 ci, cexit, slotWrites, nsig>>
  /\ UNCHANGED <<sockVars, pipeVars, wire, got>>

\* next_test with the semaphore held when sem_post(res->bitmap_sem) fails:
\* the bit is set if it read 0, the semaphore keeps its value, and next_test
\* returns false, which shmem_loop takes as the candidate 0
RecheckPostFails(w) ==
  /\ cpc[w] = "locked"
  /\ region' = IF region[ccur[w]] = 0 THEN ClaimBit(region, ccur[w])
               ELSE region
  /\ ctest' = [ctest EXCEPT ![w] = 0]
  /\ ccur' = [ccur EXCEPT ![w] = 0]
  /\ cpc' = [cpc EXCEPT ![w] = "test"]
  /\ UNCHANGED <<shmSize, mlimit, mres, cres>>
  /\ UNCHANGED <<shmLimit, bitmapSem, perfect_numbers, processes, live, mexit,
                 mpc, cp, ci, cexit, nreturned, slotWrites, nsig>>
  /\ UNCHANGED <<sockVars, pipeVars, wire, got>>

\* shmem_loop after the test: p->tested++, the test of exit_status, and the
\* call test = next_test(res), which gives test its next value
AfterTest(w, procs) ==
  /\ processes' = [procs EXCEPT ![cp[w]].tested = @ + 1]
  /\ IF cexit[w] # EXIT_SUCCESS
     THEN cpc' = [cpc EXCEPT ![w] = "leave"]
     ELSE cpc' = [cpc EXCEPT ![w] = "scan"]
  /\ ctest' = [ctest EXCEPT ![w] = 0]

\* shmem_loop: is_perfect_number(test); if so p->found++ and shmem_report,
\* else the rest of the loop body
Test(w) ==
  /\ cpc[w] = "test"
  /\ IF is_perfect_number(ctest[w])
     THEN /\ processes' = [processes EXCEPT ![cp[w]].found = @ + 1]
          /\ cpc' = [cpc EXCEPT ![w] = "rep_wait"]
          /\ ctest' = ctest
     ELSE AfterTest(w, processes)
  /\ UNCHANGED <<shmSize, mlimit, mres, cres>>
  /\ UNCHANGED <<shmLimit, region, bitmapSem, perfect_numbers, live, mexit,
                 mpc, cp, ccur, ci, cexit, nreturned, slotWrites, nsig>>
  /\ UNCHANGED <<sockVars, pipeVars, wire, got>>

\* shmem_report: sem_wait(res->perfect_numbers_sem)
ReportWait(w) ==
  /\ cpc[w] = "rep_wait"
  /\ PerfSemPositive
  /\ region' = SemDec(region, shmLimit)
  /\ cpc' = [cpc EXCEPT ![w] = "rep_scan"]
  /\ UNCHANGED <<shmSize, mlimit, mres, cres>>
  /\ UNCHANGED <<shmLimit, bitmapSem, perfect_numbers, processes, live,
                 mexit, mpc, cp, ccur, ctest, ci, cexit, nreturned,
                 slotWrites, nsig>>
  /\ UNCHANGED <<sockVars, pipeVars, wire, got>>

\* shmem_report: the for loop up to the first slot that holds 0; no such
\* slot: return false, with the semaphore still held
ReportScan(w) ==
  /\ cpc[w] = "rep_scan"
  /\ LET i == FirstEmptySlot(perfect_numbers)
     IN  IF i = -1
         THEN /\ cpc' = [cpc EXCEPT ![w] = "count"]
              /\ ci' = ci
         ELSE /\ ci' = [ci EXCEPT ![w] = i]
              /\ cpc' = [cpc EXCEPT ![w] = "rep_write"]
  /\ UNCHANGED <<shmSize, mlimit, mres, cres>>
  /\ UNCHANGED <<shmLimit, region, bitmapSem, perfect_numbers, processes,
                 live, mexit, mpc, cp, ccur, ctest, cexit, nreturned,
                 slotWrites, nsig>>
  /\ UNCHANGED <<sockVars, pipeVars, wire, got>>

\* the table after shmem_report stores n in the slot i it found empty
StoreResult(tab, i, n) == [tab EXCEPT ![i] = n]

\* shmem_report: res->perfect_numbers[i] = n
ReportWrite(w) ==
  /\ cpc[w] = "rep_write"
  /\ perfect_numbers' = StoreResult(perfect_numbers, ci[w], ctest[w])
  /\ slotWrites' = [slotWrites EXCEPT ![ci[w]] = @ + 1]
  /\ cpc' = [cpc EXCEPT ![w] = "rep_post"]
  /\ UNCHANGED <<shmSize, mlimit, mres, cres>>
  /\ UNCHANGED <<shmLimit, region, bitmapSem, processes, live, mexit, mpc,
                 cp, ccur, ctest, ci, cexit, nreturned, nsig>>
  /\ UNCHANGED <<sockVars, pipeVars, wire, got>>

\* shmem_report: sem_post(res->perfect_numbers_sem); it fails with EOVERFLOW
\* at SEM_VALUE_MAX and shmem_report returns false
ReportPost(w) ==
  /\ cpc[w] = "rep_post"
  /\ PerfSemAtMax \/ PerfSemRoom
  /\ region' = IF PerfSemAtMax THEN region ELSE SemInc(region, shmLimit)
  /\ cpc' = [cpc EXCEPT ![w] = "count"]
  /\ ci' = [ci EXCEPT ![w] = 0]
  /\ UNCHANGED <<shmSize, mlimit, mres, cres>>
  /\ UNCHANGED <<shmLimit, bitmapSem, perfect_numbers, processes, live,
                 mexit, mpc, cp, ccur, ctest, cexit, nreturned, slotWrites, nsig>>
  /\ UNCHANGED <<sockVars, pipeVars, wire, got>>

\* shmem_loop after shmem_report returned
Count(w) ==
  /\ cpc[w] = "count"
  /\ AfterTest(w, processes)
  /\ UNCHANGED <<shmSize, mlimit, mres, cres>>
  /\ UNCHANGED <<shmLimit, region, bitmapSem, perfect_numbers, live, mexit,
                 mpc, cp, ccur, ci, cexit, nreturned, slotWrites, nsig>>
  /\ UNCHANGED <<sockVars, pipeVars, wire, got>>

\* an end of shmem_loop that leaves p->pid as it is
LeaveKeepPid(w) ==
  /\ cpc[w] = "leave"
  /\ cpc' = [cpc EXCEPT ![w] = "exited"]
  /\ UNCHANGED <<shmSize, mlimit, mres, cres>>
  /\ UNCHANGED <<shmLimit, region, bitmapSem, perfect_numbers, processes,
                 live, mexit, mpc, cp, ccur, ctest, ci, cexit, nreturned,
                 slotWrites, nsig>>
  /\ UNCHANGED <<sockVars, pipeVars, wire, got>>

\* shmem_loop: p->pid = -1, then main calls exit(exit_status)
Leave(w) ==
  /\ cpc[w] = "leave"
  /\ processes' = [processes EXCEPT ![cp[w]].pid = -1]
  /\ cpc' = [cpc EXCEPT ![w] = "exited"]
  /\ UNCHANGED <<shmSize, mlimit, mres, cres>>
  /\ UNCHANGED <<shmLimit, region, bitmapSem, perfect_numbers, live, mexit,
                 mpc, cp, ccur, ctest, ci, cexit, nreturned, slotWrites, nsig>>
  /\ UNCHANGED <<sockVars, pipeVars, wire, got>>

Running(w) == cpc[w] \notin {"init", "exited"}

\* handle_signal of compute: exit_status = sig.  shmem_loop reads
\* exit_status only at the end of the loop body and main reads it on exit, so
\* a signal caught anywhere before that read is delivered right before it.
ComputeSignal(w) ==
  /\ cpc[w] \in {"test", "count", "leave"}
  /\ cexit[w] = EXIT_SUCCESS
  /\ nsig < MaxSignals
  /\ nsig' = nsig + 1
  /\ \E sig \in Signals : cexit' = [cexit EXCEPT ![w] = sig]
  /\ UNCHANGED <<shmSize, mlimit, mres, cres>>
  /\ UNCHANGED <<shmLimit, region, bitmapSem, perfect_numbers, processes,
                 live, mexit, mpc, cpc, cp, ccur, ctest, ci, nreturned,
                 slotWrites>>
  /\ UNCHANGED <<sockVars, pipeVars, wire, got>>

(***************************************************************************)
(* manage m: main, handle_signal, shmem_cleanup                            *)
(***************************************************************************)

\* the state when manage m <limit> starts: no object yet, res not filled
ShmBoot(limit) ==
  /\ shmSize = 0
  /\ mlimit = limit
  /\ mres = NoRes
  /\ cres = [w \in Workers |-> NoRes]
  /\ shmLimit = 0
  /\ region = <<>>
  /\ bitmapSem = 0
  /\ perfect_numbers = <<>>
  /\ processes = <<>>
  /\ live = FALSE
  /\ mexit = EXIT_SUCCESS
  /\ mpc = "start"
  /\ cpc = [w \in Workers |-> "init"]
  /\ cp = [w \in Workers |-> 0]
  /\ ccur = [w \in Workers |-> 0]
  /\ ctest = [w \in Workers |-> 0]
  /\ ci = [w \in Workers |-> 0]
  /\ cexit = [w \in Workers |-> EXIT_SUCCESS]
  /\ nreturned = [n \in 1..ScanBits(limit) |-> 0]
  /\ slotWrites = [i \in 0..(NPERFNUMS - 1) |-> 0]
  /\ nsig = 0

\* shmem_init and shmem_mount: shm_unlink, then shm_open with O_CREAT: the
\* object exists and is empty
ShmemCreate ==
  /\ mpc = "start"
  /\ live' = TRUE
  /\ shmSize' = 0
  /\ mpc' = "created"
  /\ UNCHANGED <<shmLimit, region, bitmapSem, perfect_numbers, processes,
                 mexit, cpc, cp, ccur, ctest, ci, cexit, nreturned,
                 slotWrites, nsig, mlimit, mres, cres>>
  /\ UNCHANGED <<sockVars, pipeVars, wire, got>>

\* shmem_mount: ftruncate(shmem_fd, object_size): the object has its size and
\* reads as zeros
ShmemResize ==
  /\ mpc = "created"
  /\ shmSize' = InitTotalSize(mlimit)
  /\ shmLimit' = 0
  /\ region' = [k \in 0..(ScanBits(mlimit) - 1) |-> 0]
  /\ bitmapSem' = 0
  /\ perfect_numbers' = [i \in 0..(NPERFNUMS - 1) |-> 0]
  /\ processes' = [i \in 0..(NPROCS - 1) |-> [pid |-> 0, found |-> 0, tested |-> 0]]
  /\ mpc' = "sized"
  /\ UNCHANGED <<live, mexit, cpc, cp, ccur, ctest, ci, cexit, nreturned,
                 slotWrites, nsig, mlimit, mres, cres>>
  /\ UNCHANGED <<sockVars, pipeVars, wire, got>>

\* shmem_init after shmem_mount: the pointers of res, *res->limit = limit,
\* the two sem_init, p->pid = -1 for every slot; main then enters its loop
ShmemSetup ==
  /\ mpc = "sized"
  /\ mres' = InitLayout(mlimit)
  /\ shmLimit' = mlimit
  /\ bitmapSem' = 1
  /\ region' = InitRegion(mlimit)
  /\ processes' = [i \in 0..(NPROCS - 1) |-> [pid |-> -1, found |-> 0, tested |-> 0]]
  /\ mpc' = "loop"
  /\ UNCHANGED <<perfect_numbers, live, mexit, cpc, cp, ccur, ctest, ci,
                 cexit, nreturned, slotWrites, nsig, shmSize, mlimit, cres>>
  /\ UNCHANGED <<sockVars, pipeVars, wire, got>>

\* handle_signal of manage: exit_status = sig
ManageSignal(sig) == mexit' = sig

\* main and shmem_cleanup: the loop while (exit_status == EXIT_SUCCESS) ends
\* at its first test after the handler ran; shmem_cleanup then calls
\* kill(p->pid, SIGQUIT) for every slot with p->pid != -1, sets p->pid = -1
\* where kill succeeded (the process still exists), calls sem_destroy and
\* shm_unlink, and main calls exit(EXIT_SUCCESS)
ShmemCleanup ==
  /\ mpc = "loop"
  /\ nsig < MaxSignals
  /\ nsig' = nsig + 1
  /\ \E sig \in Signals : ManageSignal(sig)
  /\ LET hit == {w \in Workers :
                   /\ Running(w)
                   /\ \E i \in DOMAIN processes : processes[i].pid = w}
     IN  /\ cexit' = [w \in Workers |-> IF w \in hit THEN SIGQUIT ELSE cexit[w]]
         /\ processes' = [i \in DOMAIN processes |->
                            IF processes[i].pid \in hit
                            THEN [processes[i] EXCEPT !.pid = -1]
                            ELSE processes[i]]
  /\ live' = FALSE
  /\ mpc' = "exited"
  /\ UNCHANGED <<shmSize, mlimit, mres, cres>>
  /\ UNCHANGED <<shmLimit, region, bitmapSem, perfect_numbers, cpc, cp, ccur,
                 ctest, ci, nreturned, slotWrites>>
  /\ UNCHANGED <<sockVars, pipeVars, wire, got>>

\* the runs of several compute processes in which no signal is delivered
ShmNext ==
  \/ \E w \in Workers : ShmemLoad(w)
  \/ \E w \in Workers : RosterScan(w)
  \/ \E w \in Workers : RosterWrite(w)
  \/ \E w \in Workers : Scan(w)
  \/ \E w \in Workers : SemWaitBitmap(w)
  \/ \E w \in Workers : Recheck(w)
  \/ \E w \in Workers : Test(w)
  \/ \E w \in Workers : ReportWait(w)
  \/ \E w \in Workers : ReportScan(w)
  \/ \E w \in Workers : ReportWrite(w)
  \/ \E w \in Workers : ReportPost(w)
  \/ \E w \in Workers : Count(w)
  \/ \E w \in Workers : Leave(w)

SpecShmem == ShmInit /\ [][ShmNext]_vars

SpecShmemWide == ShmInitWide /\ [][ShmNext]_vars

\* the runs in which one compute process is started, with signals to it and
\* to manage
ShmNextSolo ==
  \/ \E w \in Solo : ShmemLoad(w)
  \/ \E w \in Solo : RosterScan(w)
  \/ \E w \in Solo : RosterWrite(w)
  \/ \E w \in Solo : Scan(w)
  \/ \E w \in Solo : SemWaitBitmap(w)
  \/ \E w \in Solo : Recheck(w)
  \/ \E w \in Solo : Test(w)
  \/ \E w \in Solo : ReportWait(w)
  \/ \E w \in Solo : ReportScan(w)
  \/ \E w \in Solo : ReportWrite(w)
  \/ \E w \in Solo : ReportPost(w)
  \/ \E w \in Solo : Count(w)
  \/ \E w \in Solo : Leave(w)
  \/ \E w \in Solo : ComputeSignal(w)
  \/ ShmemCleanup

SpecShmemSolo == ShmInitSolo /\ [][ShmNextSolo]_vars

\* the runs of SpecShmemSolo in which sem_post of next_test may fail
SpecShmemSemErr ==
  ShmInitSolo /\ [][ShmNextSolo \/ (\E w \in Solo : RecheckPostFails(w))]_vars

\* the runs of SpecShmemSolo with a result table scaled down to SmallTable
\* slots, so that a run fills it
ShmInitFull ==
  (\E limit \in SoloLimits : ShmStartWith(limit, SmallTable)) /\ SockOff /\ PipeOff /\ PktOff

SpecShmemFull == ShmInitFull /\ [][ShmNextSolo]_vars

\* limits given to manage m in SpecShmemLoad
LoadLimits == 0..20

ShmInitLoad ==
  (\E limit \in LoadLimits : ShmBoot(limit)) /\ SockOff /\ PipeOff /\ PktOff

\* the runs from the start of manage m in which compute processes are
\* started at any time and run up to the return of shmem_load
ShmNextLoad ==
  \/ ShmemCreate
  \/ ShmemResize
  \/ ShmemSetup
  \/ \E w \in Workers : ShmemLoad(w)
  \/ ShmemCleanup

SpecShmemLoad == ShmInitLoad /\ [][ShmNextLoad]_vars

(***************************************************************************)
(* Socket method: manage s <limit>, compute s <address> and                *)
(* report s <address> [-k].  A client's descriptor in manage is the        *)
(* client's number.                                                        *)
(***************************************************************************)
SockWorkers == 1..NSockWorkers
Reporters == (NSockWorkers + 1)..(NSockWorkers + NReporters)
Cl == SockWorkers \cup Reporters

\* the report process of the runs in which one is started
OneReporter == {NSockWorkers + 1}

\* limits given to manage s
SockLimits == {1, NASSIGN + 1}

\* the candidates a compute process can be sent under SockLimits
SockCandidates == 1..(2 * NASSIGN)
SockPerfect == {n \in SockCandidates : is_perfect_number(n)}

\* the first i <= n <= end with is_perfect_number(n), -1 if none
NextPerfect(i, end) ==
  LET found == {n \in SockPerfect : i <= n /\ n <= end}
  IN  IF found = {} THEN -1
      ELSE CHOOSE n \in found : \A m \in found : n <= m

\* union packet
Pkt(id) == [id |-> id]
PktPerfnum(n) == [id |-> "PERFNUM", perfnum |-> n]
PktClosed(pid) == [id |-> "CLOSED", pid |-> pid]

\* send_packet of manage on the descriptor fd: the write fails once the
\* client has closed (SIGPIPE is ignored)
Send(out, fd, p) ==
  IF cclosed[fd] THEN out ELSE [out EXCEPT ![fd] = Append(@, p)]

\* send_packet of a client: the write fails once manage has closed
ClientSend(in, c, p) ==
  IF sclosed[c] THEN in ELSE [in EXCEPT ![c] = Append(@, p)]

\* a grant that starts on the mark instead of after it
RangeForOverlap(h) == [id |-> "RANGE", start |-> h, end |-> h + NASSIGN - 1]

\* sock_handle_packet, case PACKETID_DONE: the RANGE packet for the mark h
RangeFor(h) == [id |-> "RANGE", start |-> h + 1, end |-> (h + 1) + NASSIGN - 1]

\* a replay that stops one short of nperfnums
ReplayShort(perfnums) ==
  [i \in 1..(Len(perfnums) - 1) |-> PktPerfnum(perfnums[i])]

\* sock_handle_packet, case PACKETID_NOTIFY: the packets that carry the
\* numbers already found
Replay(perfnums) == [i \in 1..Len(perfnums) |-> PktPerfnum(perfnums[i])]

RECURSIVE SendAll(_, _, _)
SendAll(out, fd, ps) ==
  IF ps = <<>> THEN out ELSE SendAll(Send(out, fd, Head(ps)), fd, Tail(ps))

\* a reply that sends DONE before the numbers
NotifyReplyDoneFirst(r) ==
  <<Pkt("ACCEPT")>>
    \o (IF r.missed_some THEN <<PktClosed(PID_CLIENT)>> ELSE <<>>)
    \o (IF r.done THEN <<Pkt("DONE")>> ELSE <<>>)
    \o Replay(r.perfnums)

\* sock_handle_packet, case PACKETID_NOTIFY with res->notify == -1: the
\* packets sent to the client, in the order of the calls of send_packet
NotifyReply(r) ==
  <<Pkt("ACCEPT")>>
    \o (IF r.missed_some THEN <<PktClosed(PID_CLIENT)>> ELSE <<>>)
    \o Replay(r.perfnums)
    \o (IF r.done THEN <<Pkt("DONE")>> ELSE <<>>)

\* a test that takes every NOTIFY
NotifyAlways(notify) == TRUE

\* sock_handle_packet, case PACKETID_NOTIFY: the test res->notify == -1
NotifyFree(notify) == notify = -1

\* a test that grants one range more
MoreToAssignLate(r) == r.highest_assigned < r.limit + NASSIGN

\* sock_handle_packet, case PACKETID_DONE: the test
\* res->highest_assigned < res->limit
MoreToAssign(r) == r.highest_assigned < r.limit

\* sock_handle_packet(fd, res, p); st carries res, the queues to the clients
\* and the histories, st.done receives the return value
sock_handle_packet(fd, st, p) ==
  LET r == st.res
      notified(ps) == IF r.notify # -1 THEN SendAll(st.out, r.notify, ps)
                      ELSE st.out
  IN  CASE p.id = "PERFNUM" ->
             [st EXCEPT !.res.perfnums = Append(r.perfnums, p.perfnum),
                        !.out = notified(<<p>>),
                        !.done = FALSE]
        [] p.id = "DONE" ->
             IF MoreToAssign(r)
             THEN LET outbound == RangeFor(r.highest_assigned)
                  IN  [st EXCEPT !.res.highest_assigned = outbound.end,
                                 !.out = Send(st.out, fd, outbound),
                                 !.granted = Append(st.granted, outbound),
                                 !.done = FALSE]
             ELSE [st EXCEPT !.res.done = TRUE,
                             !.out = LET o == Send(st.out, fd, Pkt("REFUSE"))
                                     IN  IF r.notify # -1
                                         THEN Send(o, r.notify, Pkt("DONE"))
                                         ELSE o,
                             !.done = FALSE]
        [] p.id = "CLOSED" ->
             [st EXCEPT !.res.missed_some = TRUE,
                        !.out = notified(<<p>>),
                        !.done = FALSE]
        [] p.id = "KILL" -> [st EXCEPT !.done = TRUE]
        [] p.id = "NOTIFY" ->
             IF NotifyFree(r.notify)
             THEN [st EXCEPT
                     !.res.notify = fd,
                     !.out = SendAll(st.out, fd, NotifyReply(r)),
                     !.nreplayed = Len(Replay(r.perfnums)),
                     !.done = FALSE]
             ELSE [st EXCEPT !.out = Send(st.out, fd, Pkt("REFUSE")),
                             !.refused = @ \cup {fd},
                             !.done = FALSE]
        [] OTHER -> [st EXCEPT !.done = FALSE]

\* the state after sock_init of manage with the limit given, for a client
\* table of the given number of slots, no client started yet.  The listening
\* socket is descriptor 0, the descriptor of a client is its number.
SockStart(limit, slots) ==
  /\ res = [limit |-> limit, highest_assigned |-> 0, perfnums |-> <<>>,
            notify |-> -1, done |-> FALSE, missed_some |-> FALSE,
            clients |-> [i \in 0..(slots - 1) |-> -1],
            listen |-> 0, allfds |-> {0}]
  /\ spc = "select"
  /\ sexit = EXIT_SUCCESS
  /\ backlog = <<>>
  /\ toSrv = [c \in Cl |-> <<>>]
  /\ toCli = [c \in Cl |-> <<>>]
  /\ cclosed = [c \in Cl |-> FALSE]
  /\ sclosed = [c \in Cl |-> FALSE]
  /\ kpc = [c \in Cl |-> "start"]
  /\ kexit = [c \in Cl |-> EXIT_SUCCESS]
  /\ kstatus = [c \in Cl |-> -1]
  /\ wi = [w \in SockWorkers |-> 0]
  /\ wend = [w \in SockWorkers |-> 0]
  /\ rkill = [r \in Reporters |-> FALSE]
  /\ rprinted = [r \in Reporters |-> <<>>]
  /\ granted = <<>>
  /\ nreplayed = 0
  /\ refused = {}
  /\ ssig = 0

\* accept_client: the descriptor goes to the first free slot of the table;
\* when no slot is free the loop reaches i == MAX_CLIENTS and closes the
\* descriptor.  FD_SET(fd, &res->allfds) follows the loop on both paths.
accept_client(st, fd) ==
  LET r == st.res
      free == {i \in DOMAIN r.clients : r.clients[i] < 0}
  IN  IF free = {}
      THEN [st EXCEPT !.sclosed[fd] = TRUE,
                      !.res.allfds = @ \cup {fd}]
      ELSE [st EXCEPT
              !.res.clients[CHOOSE i \in free : \A m \in free : i <= m] = fd,
              !.res.allfds = @ \cup {fd}]

\* a body of the for loop that leaves res->notify as it is when the client
\* has closed
ServeSlotKeepNotify(st, i, rset) ==
  LET fd == st.res.clients[i]
  IN  IF fd < 0 \/ fd \notin rset THEN st
      ELSE IF st.in[fd] = <<>>
      THEN [st EXCEPT !.res.clients[i] = -1,
                      !.res.allfds = @ \ {fd},
                      !.sclosed[fd] = TRUE]
      ELSE sock_handle_packet(fd, [st EXCEPT !.in[fd] = Tail(@)],
                              Head(st.in[fd]))

\* a body of the for loop that handles a packet it does not expect as DONE
ServeSlotStrayAsDone(st, i, rset) ==
  LET fd == st.res.clients[i]
  IN  IF fd < 0 \/ fd \notin rset THEN st
      ELSE IF st.in[fd] = <<>>
      THEN [st EXCEPT !.res.notify = IF fd = @ THEN -1 ELSE @,
                      !.res.clients[i] = -1,
                      !.res.allfds = @ \ {fd},
                      !.sclosed[fd] = TRUE]
      ELSE sock_handle_packet(fd, [st EXCEPT !.in[fd] = Tail(@)],
             IF Head(st.in[fd]).id \in
                  {"PERFNUM", "DONE", "CLOSED", "KILL", "NOTIFY"}
             THEN Head(st.in[fd]) ELSE Pkt("DONE"))

\* sock_report of manage: the body of the for loop for slot i; rset holds the
\* descriptors select reported readable.  A read of 0 bytes unregisters and
\* closes the client, a packet goes to sock_handle_packet.
ServeSlot(st, i, rset) ==
  LET fd == st.res.clients[i]
  IN  IF fd < 0 \/ fd \notin rset THEN st
      ELSE IF st.in[fd] = <<>>
      THEN [st EXCEPT !.res.notify = IF fd = @ THEN -1 ELSE @,
                      !.res.clients[i] = -1,
                      !.res.allfds = @ \ {fd},
                      !.sclosed[fd] = TRUE]
      ELSE sock_handle_packet(fd, [st EXCEPT !.in[fd] = Tail(@)],
                              Head(st.in[fd]))

RECURSIVE ServeFrom(_, _, _)
ServeFrom(st, i, rset) ==
  IF i \notin DOMAIN st.res.clients THEN st
  ELSE ServeFrom(ServeSlot(st, i, rset), i + 1, rset)

\* the descriptors of the table that select reports readable: a packet is
\* there, or the client has closed
SockReady ==
  {fd \in Cl : /\ \E i \in DOMAIN res.clients : res.clients[i] = fd
               /\ toSrv[fd] # <<>> \/ cclosed[fd]}

\* the descriptors of allfds that manage has closed: select fails with EBADF
\* while there is one
SockStale ==
  res.allfds \ ({res.listen} \cup {res.clients[i] : i \in DOMAIN res.clients})

\* sock_report of manage: one return of select and the pass over the ready
\* descriptors that follows, then the loop condition and the test of
\* exit_status at the top of the loop
SockRound ==
  /\ spc = "select"
  /\ SockStale = {}
  /\ LET rset == SockReady
         st0 == [res |-> res, in |-> toSrv, out |-> toCli,
                 sclosed |-> sclosed, granted |-> granted,
                 nreplayed |-> nreplayed, refused |-> refused,
                 done |-> FALSE]
         st1 == IF backlog # <<>>
                THEN accept_client(st0, Head(backlog))
                ELSE st0
         st2 == ServeFrom(st1, 0, rset)
     IN  /\ backlog # <<>> \/ rset # {}
         /\ res' = st2.res
         /\ toSrv' = st2.in
         /\ toCli' = st2.out
         /\ sclosed' = st2.sclosed
         /\ granted' = st2.granted
         /\ nreplayed' = st2.nreplayed
         /\ refused' = st2.refused
         /\ spc' = IF st2.done \/ sexit # EXIT_SUCCESS
                   THEN "cleanup" ELSE "select"
  /\ backlog' = IF backlog # <<>> THEN Tail(backlog) ELSE backlog
  /\ UNCHANGED <<sexit, cclosed, kpc, kexit, kstatus, wi, wend, rkill,
                 rprinted, ssig>>
  /\ UNCHANGED <<shmVars, pipeVars, wire, got>>

\* sock_report of manage with a closed descriptor in allfds: select returns
\* -1 with EBADF and leaves rset as it was copied from allfds, so the test
\* FD_ISSET(res->listen, &rset) succeeds and accept_client is called; nready
\* is -1 and the loop continues after it.  With no connection waiting manage
\* blocks in accept.
SockBadSelect ==
  /\ spc = "select"
  /\ SockStale # {}
  /\ IF backlog # <<>>
     THEN LET st == accept_client([res |-> res, sclosed |-> sclosed],
                                  Head(backlog))
          IN  /\ res' = st.res
              /\ sclosed' = st.sclosed
              /\ backlog' = Tail(backlog)
              /\ spc' = IF sexit # EXIT_SUCCESS THEN "cleanup" ELSE "select"
     ELSE /\ spc' = "accept"
          /\ UNCHANGED <<res, sclosed, backlog>>
  /\ UNCHANGED <<sexit, toSrv, toCli, cclosed, kpc, kexit, kstatus, wi, wend,
                 rkill, rprinted, granted, nreplayed, refused, ssig>>
  /\ UNCHANGED <<shmVars, pipeVars, wire, got>>

\* handle_signal of manage s: exit_status = sig.  A select that is already
\* waiting returns EINTR and the loop ends; a signal that arrives between
\* the test of exit_status and the call of select leaves manage in select.
SockManageSignal ==
  /\ spc = "select"
  /\ ssig < MaxSignals
  /\ ssig' = ssig + 1
  /\ \E sig \in Signals : sexit' = sig
  /\ \E interrupted \in BOOLEAN :
       /\ interrupted => backlog = <<>> /\ SockReady = {}
       /\ spc' = IF interrupted THEN "cleanup" ELSE "select"
  /\ UNCHANGED <<res, backlog, toSrv, toCli, cclosed, sclosed, kpc, kexit,
                 kstatus, wi, wend, rkill, rprinted, granted, nreplayed, refused>>
  /\ UNCHANGED <<shmVars, pipeVars, wire, got>>

\* sock_cleanup of manage: CLOSED(PID_SERVER) to every client of the table,
\* close of every descriptor and of the listening socket
SockCleanup ==
  /\ spc = "cleanup"
  /\ LET inTable == {res.clients[i] : i \in DOMAIN res.clients} \ {-1}
         waiting == {backlog[k] : k \in DOMAIN backlog}
     IN  /\ toCli' = [c \in Cl |->
                        IF c \in inTable /\ ~cclosed[c]
                        THEN Append(toCli[c], PktClosed(PID_SERVER))
                        ELSE toCli[c]]
         /\ sclosed' = [c \in Cl |->
                          sclosed[c] \/ c \in inTable \/ c \in waiting]
  /\ res' = [res EXCEPT !.clients = [i \in DOMAIN res.clients |-> -1],
                        !.notify = -1,
                        !.listen = -1]
  /\ backlog' = <<>>
  /\ spc' = "exited"
  /\ UNCHANGED <<sexit, toSrv, cclosed, kpc, kexit, kstatus, wi, wend, rkill,
                 rprinted, granted, nreplayed, refused, ssig>>
  /\ UNCHANGED <<shmVars, pipeVars, wire, got>>

\* get_packet of a client: the packet read, or the zeroed packet (id NULL)
\* when the read returns 0 or fails
Received(c) == IF toCli[c] # <<>> THEN Head(toCli[c]) ELSE Pkt("NULL")

\* a read of the client's descriptor returns: a packet is there, or manage
\* has closed the connection
Readable(c) == toCli[c] # <<>> \/ sclosed[c]

\* the exit of a client process with the given status; its descriptor closes
ClientExit(c, status) ==
  /\ kpc' = [kpc EXCEPT ![c] = "exited"]
  /\ kstatus' = [kstatus EXCEPT ![c] = status]
  /\ cclosed' = [cclosed EXCEPT ![c] = TRUE]

\* compute s: sock_init, sock_connect; no listening socket: exit(EXIT_FAILURE)
WorkerConnect(w) ==
  /\ kpc[w] = "start"
  /\ IF spc = "exited"
     THEN /\ ClientExit(w, EXIT_FAILURE)
          /\ backlog' = backlog
     ELSE /\ backlog' = Append(backlog, w)
          /\ kpc' = [kpc EXCEPT ![w] = "top"]
          /\ UNCHANGED <<kstatus, cclosed>>
  /\ UNCHANGED <<res, spc, sexit, toSrv, toCli, sclosed, kexit, wi, wend,
                 rkill, rprinted, granted, nreplayed, refused, ssig>>
  /\ UNCHANGED <<shmVars, pipeVars, wire, got>>

\* sock_loop: the test of exit_status at the top of the while loop, then
\* send_packet(fd, DONE)
WorkerTop(w) ==
  /\ kpc[w] = "top"
  /\ IF kexit[w] # EXIT_SUCCESS
     THEN /\ kpc' = [kpc EXCEPT ![w] = "close"]
          /\ toSrv' = toSrv
     ELSE /\ toSrv' = ClientSend(toSrv, w, Pkt("DONE"))
          /\ kpc' = [kpc EXCEPT ![w] = "recv"]
  /\ UNCHANGED <<res, spc, sexit, backlog, toCli, cclosed, sclosed, kexit,
                 kstatus, wi, wend, rkill, rprinted, granted, nreplayed, refused, ssig>>
  /\ UNCHANGED <<shmVars, pipeVars, wire, got>>

\* sock_loop: get_packet and the switch on p.id
WorkerRecv(w) ==
  /\ kpc[w] = "recv"
  /\ Readable(w)
  /\ LET p == Received(w)
     IN  /\ kpc' = [kpc EXCEPT ![w] =
                      CASE p.id \in {"CLOSED", "REFUSE"} -> "close"
                        [] p.id = "RANGE" -> "range"
                        [] OTHER -> "top"]
         /\ wi' = [wi EXCEPT ![w] = IF p.id = "RANGE" THEN p.start ELSE @]
         /\ wend' = [wend EXCEPT ![w] = IF p.id = "RANGE" THEN p.end ELSE @]
  /\ toCli' = [toCli EXCEPT ![w] = IF @ # <<>> THEN Tail(@) ELSE @]
  /\ UNCHANGED <<res, spc, sexit, backlog, toSrv, cclosed, sclosed, kexit,
                 kstatus, rkill, rprinted, granted, nreplayed, refused, ssig>>
  /\ UNCHANGED <<shmVars, pipeVars, wire, got>>

\* sock_loop, case PACKETID_RANGE: the for loop from one test of exit_status
\* up to the next perfect number or the end of the range.  The iterations in
\* between change nothing but i; a signal caught during them is seen by the
\* test of the iteration this step ends with.
WorkerTest(w) ==
  /\ kpc[w] = "range"
  /\ IF wi[w] > wend[w]
     THEN /\ kpc' = [kpc EXCEPT ![w] = "top"]
          /\ wi' = [wi EXCEPT ![w] = 0]
          /\ wend' = [wend EXCEPT ![w] = 0]
          /\ toSrv' = toSrv
     ELSE IF kexit[w] # EXIT_SUCCESS
     THEN /\ toSrv' = ClientSend(toSrv, w, PktClosed(PID_CLIENT))
          /\ kpc' = [kpc EXCEPT ![w] = "top"]
          /\ wi' = [wi EXCEPT ![w] = 0]
          /\ wend' = [wend EXCEPT ![w] = 0]
     ELSE LET n == NextPerfect(wi[w], wend[w])
          IN  /\ toSrv' = IF n = -1 THEN toSrv
                          ELSE ClientSend(toSrv, w, PktPerfnum(n))
              /\ wi' = [wi EXCEPT ![w] = IF n = -1 THEN wend[w] + 1 ELSE n + 1]
              /\ UNCHANGED <<kpc, wend>>
  /\ UNCHANGED <<res, spc, sexit, backlog, toCli, cclosed, sclosed, kexit,
                 kstatus, rkill, rprinted, granted, nreplayed, refused, ssig>>
  /\ UNCHANGED <<shmVars, pipeVars, wire, got>>

\* compute s: sock_cleanup (close) and exit(exit_status) of main
WorkerClose(w) ==
  /\ kpc[w] = "close"
  /\ ClientExit(w, kexit[w])
  /\ UNCHANGED <<res, spc, sexit, backlog, toSrv, toCli, sclosed, kexit, wi,
                 wend, rkill, rprinted, granted, nreplayed, refused, ssig>>
  /\ UNCHANGED <<shmVars, pipeVars, wire, got>>

\* report s: sock_init (sock_connect, send NOTIFY); -k is on the command
\* line or not
ReportConnect(r) ==
  /\ kpc[r] = "start"
  /\ \E k \in BOOLEAN : rkill' = [rkill EXCEPT ![r] = k]
  /\ IF spc = "exited"
     THEN /\ ClientExit(r, EXIT_FAILURE)
          /\ UNCHANGED <<backlog, toSrv>>
     ELSE /\ backlog' = Append(backlog, r)
          /\ toSrv' = ClientSend(toSrv, r, Pkt("NOTIFY"))
          /\ kpc' = [kpc EXCEPT ![r] = "init_recv"]
          /\ UNCHANGED <<kstatus, cclosed>>
  /\ UNCHANGED <<res, spc, sexit, toCli, sclosed, kexit, wi, wend, rprinted,
                 granted, nreplayed, refused, ssig>>
  /\ UNCHANGED <<shmVars, pipeVars, wire, got>>

\* a peer that is not one of the programs connects in the place of report r
\* and sends one packet with an id manage has no case for: NULL, RANGE, or
\* one that falls to the default case (ACCEPT, REFUSE, a value outside the
\* enumeration); it then stays connected
StrayConnect(r) ==
  /\ kpc[r] = "start"
  /\ spc # "exited"
  /\ backlog' = Append(backlog, r)
  /\ \E id \in {"NULL", "RANGE", "ACCEPT", "REFUSE", "OUTSIDE"} :
       toSrv' = ClientSend(toSrv, r, Pkt(id))
  /\ kpc' = [kpc EXCEPT ![r] = "stray"]
  /\ UNCHANGED <<res, spc, sexit, toCli, cclosed, sclosed, kexit, kstatus, wi,
                 wend, rkill, rprinted, granted, nreplayed, refused, ssig>>
  /\ UNCHANGED <<shmVars, pipeVars, wire, got>>

\* report s: the get_packet of sock_init; on ACCEPT either sock_kill (send
\* KILL, exit) or the first test of exit_status in sock_report; on anything
\* else close and exit(EXIT_FAILURE)
ReportInit(r) ==
  /\ kpc[r] = "init_recv"
  /\ Readable(r)
  /\ toCli' = [toCli EXCEPT ![r] = IF @ # <<>> THEN Tail(@) ELSE @]
  /\ IF Received(r).id # "ACCEPT"
     THEN /\ ClientExit(r, EXIT_FAILURE)
          /\ toSrv' = toSrv
     ELSE IF rkill[r]
     THEN /\ toSrv' = ClientSend(toSrv, r, Pkt("KILL"))
          /\ ClientExit(r, IF sclosed[r] THEN EXIT_FAILURE ELSE EXIT_SUCCESS)
     ELSE /\ kpc' = [kpc EXCEPT ![r] =
                      IF kexit[r] # EXIT_SUCCESS THEN "close" ELSE "read"]
          /\ UNCHANGED <<toSrv, kstatus, cclosed>>
  /\ UNCHANGED <<res, spc, sexit, backlog, sclosed, kexit, wi, wend, rkill,
                 rprinted, granted, nreplayed, refused, ssig>>
  /\ UNCHANGED <<shmVars, pipeVars, wire, got>>

\* sock_report of report: get_packet returned a packet, the switch on p.id,
\* then the loop condition and the test of exit_status.  A read of 0 bytes
\* changes nothing and the loop goes on.
ReportRecv(r) ==
  /\ kpc[r] = "read"
  /\ toCli[r] # <<>>
  /\ LET p == Head(toCli[r])
         done == \/ p.id = "DONE"
                 \/ p.id = "CLOSED" /\ p.pid = PID_SERVER
     IN  /\ rprinted' = [rprinted EXCEPT ![r] =
                           IF p.id = "PERFNUM" THEN Append(@, p.perfnum) ELSE @]
         /\ kpc' = [kpc EXCEPT ![r] =
                      IF done \/ kexit[r] # EXIT_SUCCESS THEN "close" ELSE "read"]
  /\ toCli' = [toCli EXCEPT ![r] = Tail(@)]
  /\ UNCHANGED <<res, spc, sexit, backlog, toSrv, cclosed, sclosed, kexit,
                 kstatus, wi, wend, rkill, granted, nreplayed, refused, ssig>>
  /\ UNCHANGED <<shmVars, pipeVars, wire, got>>

\* report s: sock_cleanup (close) and exit(EXIT_SUCCESS) of main
ReportClose(r) ==
  /\ kpc[r] = "close"
  /\ ClientExit(r, EXIT_SUCCESS)
  /\ UNCHANGED <<res, spc, sexit, backlog, toSrv, toCli, sclosed, kexit, wi,
                 wend, rkill, rprinted, granted, nreplayed, refused, ssig>>
  /\ UNCHANGED <<shmVars, pipeVars, wire, got>>

\* handle_signal of compute s and report s: exit_status = sig.  A read that
\* is already waiting fails with EINTR: sock_loop goes back to the top of its
\* loop, sock_report of report too and leaves it there, and sock_init of
\* report takes the zeroed packet for an unknown one, closes and fails.
ClientSignal(c) ==
  /\ kpc[c] \notin {"start", "exited"}
  /\ kexit[c] = EXIT_SUCCESS
  /\ ssig < MaxSignals
  /\ ssig' = ssig + 1
  /\ \E sig \in Signals : kexit' = [kexit EXCEPT ![c] = sig]
  /\ \E interrupted \in BOOLEAN :
       /\ interrupted => ~Readable(c) /\ kpc[c] \in {"recv", "read", "init_recv"}
       /\ IF interrupted /\ kpc[c] = "init_recv"
          THEN ClientExit(c, EXIT_FAILURE)
          ELSE /\ kpc' = [kpc EXCEPT ![c] =
                           IF interrupted /\ @ = "recv" THEN "top"
                           ELSE IF interrupted /\ @ = "read" THEN "close"
                           ELSE @]
               /\ UNCHANGED <<kstatus, cclosed>>
  /\ UNCHANGED <<res, spc, sexit, backlog, toSrv, toCli, sclosed, wi, wend,
                 rkill, rprinted, granted, nreplayed, refused>>
  /\ UNCHANGED <<shmVars, pipeVars, wire, got>>

\* the runs of every compute process and one report process in which no
\* signal is delivered
SockNext ==
  \/ SockRound
  \/ SockCleanup
  \/ \E w \in SockWorkers : WorkerConnect(w)
  \/ \E w \in SockWorkers : WorkerTop(w)
  \/ \E w \in SockWorkers : WorkerRecv(w)
  \/ \E w \in SockWorkers : WorkerTest(w)
  \/ \E w \in SockWorkers : WorkerClose(w)
  \/ \E r \in OneReporter : ReportConnect(r)
  \/ \E r \in OneReporter : ReportInit(r)
  \/ \E r \in OneReporter : ReportRecv(r)
  \/ \E r \in OneReporter : ReportClose(r)

\* the runs of the compute processes of Solo and every report process in
\* which no signal is delivered
SockNextPair ==
  \/ SockRound
  \/ SockCleanup
  \/ \E w \in Solo : WorkerConnect(w)
  \/ \E w \in Solo : WorkerTop(w)
  \/ \E w \in Solo : WorkerRecv(w)
  \/ \E w \in Solo : WorkerTest(w)
  \/ \E w \in Solo : WorkerClose(w)
  \/ \E r \in Reporters : ReportConnect(r)
  \/ \E r \in Reporters : ReportInit(r)
  \/ \E r \in Reporters : ReportRecv(r)
  \/ \E r \in Reporters : ReportClose(r)

\* the runs of the compute processes of Solo and one report process, with
\* signals to every process
SockNextSolo ==
  \/ SockRound
  \/ SockManageSignal
  \/ SockCleanup
  \/ \E w \in Solo : WorkerConnect(w)
  \/ \E w \in Solo : WorkerTop(w)
  \/ \E w \in Solo : WorkerRecv(w)
  \/ \E w \in Solo : WorkerTest(w)
  \/ \E w \in Solo : WorkerClose(w)
  \/ \E r \in OneReporter : ReportConnect(r)
  \/ \E r \in OneReporter : ReportInit(r)
  \/ \E r \in OneReporter : ReportRecv(r)
  \/ \E r \in OneReporter : ReportClose(r)
  \/ \E c \in Solo \cup OneReporter : ClientSignal(c)

\* the runs of the compute processes of Solo and one report process in
\* which no signal is delivered, manage going on after a failed select
SockNextFull ==
  \/ SockRound
  \/ SockBadSelect
  \/ SockCleanup
  \/ \E w \in Solo : WorkerConnect(w)
  \/ \E w \in Solo : WorkerTop(w)
  \/ \E w \in Solo : WorkerRecv(w)
  \/ \E w \in Solo : WorkerTest(w)
  \/ \E w \in Solo : WorkerClose(w)
  \/ \E r \in OneReporter : ReportConnect(r)
  \/ \E r \in OneReporter : ReportInit(r)
  \/ \E r \in OneReporter : ReportRecv(r)
  \/ \E r \in OneReporter : ReportClose(r)

\* MAX_CLIENTS is FD_SETSIZE; the model gives the table a slot for every
\* client
SockInit ==
  (\E limit \in SockLimits : SockStart(limit, NSockWorkers + NReporters))
    /\ ShmOff /\ PipeOff /\ PktOff

SpecSock == SockInit /\ [][SockNext]_vars

SpecSockSolo == SockInit /\ [][SockNextSolo]_vars

SpecSockPair == SockInit /\ [][SockNextPair]_vars

\* the runs of SpecSockPair in which a peer that is not one of the programs
\* may take the place of a report process
SpecSockStray ==
  SockInit /\ [][SockNextPair \/ (\E r \in Reporters : StrayConnect(r))]_vars

\* the runs with a client table of SmallTable slots, one slot less than the
\* clients that connect
SockInitFull ==
  (\E limit \in SockLimits : SockStart(limit, SmallTable)) /\ ShmOff /\ PipeOff /\ PktOff

SpecSockFull == SockInitFull /\ [][SockNextFull]_vars

\* a step of the compute process w, a step of the report process r
WorkerStep(w) ==
  \/ WorkerConnect(w)
  \/ WorkerTop(w)
  \/ WorkerRecv(w)
  \/ WorkerTest(w)
  \/ WorkerClose(w)

ReporterStep(r) ==
  \/ ReportConnect(r)
  \/ ReportInit(r)
  \/ ReportRecv(r)
  \/ ReportClose(r)

\* select of manage returns: a connection waits in the backlog or a
\* descriptor of the table is readable; the condition under which SockRound
\* can take a step
RoundReady == spc = "select" /\ (backlog # <<>> \/ SockReady # {})

\* every process that is started runs whenever it can: manage is not held
\* up outside select (it takes its round again and again unless select
\* blocks), a client not outside its read; signals come or not
SockFair ==
  /\ ([]<>(~RoundReady)) \/ ([]<><<SockRound>>_vars)
  /\ WF_vars(SockCleanup)
  /\ \A w \in Solo : WF_vars(WorkerStep(w))
  /\ \A r \in OneReporter : WF_vars(ReporterStep(r))

SpecSockSoloFair == SockInit /\ [][SockNextSolo]_vars /\ SockFair

(***************************************************************************)
(* Pipe method: manage p <limit> <nprocs>, the compute p <start> <end>     *)
(* processes it spawns, and report p.  Compute i of the spawn loop has     *)
(* pid i + 1, manage has ManagePid.                                        *)
(***************************************************************************)

\* limits and process counts given to manage p
PipeLimits == {1, 6, 28}
PipeProcs == {1, 2, 3}

MaxProcs == CHOOSE n \in PipeProcs : \A m \in PipeProcs : m <= n
ManagePid == MaxProcs + 1
Pids == 1..MaxProcs

\* snprintf(str, 11, "%d", n) for n >= 0: the decimal digits, at most 10
RECURSIVE Digits(_)
Digits(n) == IF n < 10 THEN <<n>> ELSE Append(Digits(n \div 10), n % 10)
Snprintf11(n) ==
  LET d == Digits(n) IN SubSeq(d, 1, IF Len(d) < 10 THEN Len(d) ELSE 10)

\* atoi of a string of digits
RECURSIVE Atoi(_)
Atoi(str) ==
  IF str = <<>> THEN 0
  ELSE 10 * Atoi(SubSeq(str, 1, Len(str) - 1)) + str[Len(str)]

\* spawn_computes: numbers_per_proc = floor((double)limit / (double)nprocs)
NumbersPerProc(limit, nprocs) == limit \div nprocs

\* a block that is one value too long
RangeEndLong(i, start, limit, nprocs) ==
  IF i = 0 THEN NumbersPerProc(limit, nprocs) + (limit % nprocs) + 1
  ELSE start + NumbersPerProc(limit, nprocs)

\* spawn_computes: end of the range of compute i, whose range starts at start
RangeEnd(i, start, limit, nprocs) ==
  IF i = 0 THEN NumbersPerProc(limit, nprocs) + (limit % nprocs)
  ELSE start + NumbersPerProc(limit, nprocs) - 1

\* spawn_computes: the for loop; start is the end of the pass before plus 1;
\* the result holds, for each compute, the arguments it reads with atoi
RECURSIVE SpawnArgs(_, _, _, _)
SpawnArgs(i, end, limit, nprocs) ==
  IF i = nprocs THEN <<>>
  ELSE LET start == end + 1
           e == RangeEnd(i, start, limit, nprocs)
       IN  <<[start |-> Atoi(Snprintf11(start)), end |-> Atoi(Snprintf11(e))]>>
           \o SpawnArgs(i + 1, e, limit, nprocs)

\* the state when manage p <limit> <nprocs> starts
PipeStart(limit, nprocs) ==
  /\ pres = [limit |-> limit, nprocs |-> nprocs, perfnums |-> <<>>,
             compute_pids |-> [i \in 0..(nprocs - 1) |-> -1]]
  /\ ppc = "init"
  /\ pexit = EXIT_SUCCESS
  /\ body_count = 0
  /\ pwait = -1
  /\ pstatus = -1
  /\ pipe = <<>>
  /\ fifo = <<>>
  /\ fifoEnd = "none"
  /\ qpc = [q \in Pids |-> "none"]
  /\ qargs = [q \in Pids |-> [start |-> 0, end |-> 0]]
  /\ qi = [q \in Pids |-> 0]
  /\ qexit = [q \in Pids |-> EXIT_SUCCESS]
  /\ tpc = "start"
  /\ texit = EXIT_SUCCESS
  /\ tmanage = -1
  /\ tprinted = <<>>
  /\ pclosed = {}
  /\ pdone = {}
  /\ psig = 0

\* pipe_init of manage: spawn_computes, the pid file, mkfifo; manage then
\* waits in open(FIFO_PATH, O_WRONLY) for a reader
PipeSpawn ==
  /\ ppc = "init"
  /\ LET args == SpawnArgs(0, 0, pres.limit, pres.nprocs)
     IN  /\ qargs' = [q \in Pids |-> IF q <= pres.nprocs THEN args[q] ELSE qargs[q]]
         /\ qpc' = [q \in Pids |-> IF q <= pres.nprocs THEN "start" ELSE qpc[q]]
  /\ pres' = [pres EXCEPT !.compute_pids = [i \in 0..(pres.nprocs - 1) |-> i + 1]]
  /\ ppc' = "open"
  /\ UNCHANGED <<pexit, body_count, pwait, pstatus, pipe, fifo, fifoEnd, qi, qexit,
                 tpc, texit, tmanage, tprinted, pclosed, pdone, psig>>
  /\ UNCHANGED <<shmVars, sockVars, wire, got>>

\* pipe_init of manage: open returns once report has opened the FIFO
PipeOpen ==
  /\ ppc = "open"
  /\ fifoEnd = "open"
  /\ ppc' = "loop"
  /\ UNCHANGED <<pres, pexit, body_count, pwait, pstatus, pipe, fifo, fifoEnd, qpc,
                 qargs, qi, qexit, tpc, texit, tmanage, tprinted, pclosed,
                 pdone, psig>>
  /\ UNCHANGED <<shmVars, sockVars, wire, got>>

\* send_packet of manage on the FIFO: EPIPE once report has closed it
SendFifo(f, p) == IF fifoEnd = "closed" THEN f ELSE Append(f, p)

\* a store that does not advance nperfnums
StoreOverwrite(perfnums, n) == <<n>>

\* pipe_report of manage: res->perfnums[res->nperfnums++] = n
StorePerfnum(perfnums, n) == Append(perfnums, n)

\* pipe_report of manage: the test of exit_status at the top of the loop,
\* get_packet on the non-blocking pipe (an empty pipe changes nothing) and
\* the switch up to the call of waitpid
PipeLoop ==
  /\ ppc = "loop"
  /\ pexit # EXIT_SUCCESS \/ pipe # <<>>
  /\ IF pexit # EXIT_SUCCESS
     THEN /\ ppc' = "cleanup"
          /\ UNCHANGED <<pres, pwait, pipe, fifo, pclosed, pdone>>
     ELSE LET p == Head(pipe)
          IN  /\ pipe' = Tail(pipe)
              /\ pres' = IF p.id = "PERFNUM"
                         THEN [pres EXCEPT !.perfnums = StorePerfnum(@, p.perfnum)]
                         ELSE pres
              /\ fifo' = IF p.id \in {"PERFNUM", "CLOSED"}
                         THEN SendFifo(fifo, p) ELSE fifo
              /\ pclosed' = IF p.id = "CLOSED" THEN pclosed \cup {p.pid}
                            ELSE pclosed
              /\ pdone' = IF p.id = "DONE" THEN pdone \cup {p.pid} ELSE pdone
              /\ pwait' = IF p.id \in {"CLOSED", "DONE"} THEN p.pid ELSE pwait
              /\ ppc' = IF p.id \in {"CLOSED", "DONE"} THEN "wait"
                        ELSE IF p.id = "PERFNUM" /\ fifoEnd = "closed"
                        THEN "cleanup" ELSE "loop"
  /\ UNCHANGED <<pexit, body_count, pstatus, fifoEnd, qpc, qargs, qi, qexit,
                 tpc, texit, tmanage, tprinted, psig>>
  /\ UNCHANGED <<shmVars, sockVars, wire, got>>

\* compute_pids with the entries of pid set to -1
Collected(pids, pid) == [i \in DOMAIN pids |-> IF pids[i] = pid THEN -1 ELSE pids[i]]

\* pipe_report of manage, cases CLOSED and DONE: waitpid returns once the
\* process has ended; body_count++, the test body_count == nprocs, and the
\* entry of the process in compute_pids
PipeWait ==
  /\ ppc = "wait"
  /\ qpc[pwait] \in {"exited", "aborted"}
  /\ body_count' = body_count + 1
  /\ pres' = [pres EXCEPT !.compute_pids = Collected(@, pwait)]
  /\ pwait' = -1
  /\ ppc' = IF body_count + 1 = pres.nprocs THEN "cleanup" ELSE "loop"
  /\ UNCHANGED <<pexit, pstatus, pipe, fifo, fifoEnd, qpc, qargs, qi, qexit,
                 tpc, texit, tmanage, tprinted, pclosed, pdone, psig>>
  /\ UNCHANGED <<shmVars, sockVars, wire, got>>

\* a pipe_cleanup that sends DONE whatever exit_status is
PipeCleanupDone ==
  /\ ppc = "cleanup"
  /\ fifo' = SendFifo(fifo, [id |-> "DONE", pid |-> ManagePid])
  /\ ppc' = "collect"
  /\ UNCHANGED <<pres, pexit, body_count, pwait, pstatus, pipe, fifoEnd, qpc,
                 qargs, qi, qexit, tpc, texit, tmanage, tprinted, pclosed,
                 pdone, psig>>
  /\ UNCHANGED <<shmVars, sockVars, wire, got>>

\* pipe_cleanup of manage: DONE or CLOSED with its own pid to report, then
\* close of the pipe and of the FIFO, unlink
PipeCleanup ==
  /\ ppc = "cleanup"
  /\ fifo' = SendFifo(fifo, [id |-> IF pexit = EXIT_SUCCESS THEN "DONE" ELSE "CLOSED",
                             pid |-> ManagePid])
  /\ ppc' = "collect"
  /\ UNCHANGED <<pres, pexit, body_count, pwait, pstatus, pipe, fifoEnd, qpc,
                 qargs, qi, qexit, tpc, texit, tmanage, tprinted, pclosed,
                 pdone, psig>>
  /\ UNCHANGED <<shmVars, sockVars, wire, got>>

\* pipe_cleanup and collect_computes of manage: the loop over compute_pids:
\* kill(pid, SIGQUIT) for the first entry that is not -1; with none left
\* manage exits, with EXIT_FAILURE when pipe_init had failed
PipeCollect ==
  /\ ppc = "collect"
  /\ LET left == {i \in DOMAIN pres.compute_pids : pres.compute_pids[i] # -1}
     IN  IF left = {}
         THEN /\ ppc' = "exited"
              /\ pstatus' = IF fifoEnd = "none" THEN EXIT_FAILURE ELSE EXIT_SUCCESS
              /\ UNCHANGED <<pwait, qexit>>
         ELSE LET pid == pres.compute_pids[CHOOSE i \in left : \A m \in left : i <= m]
              IN  /\ qexit' = IF qpc[pid] \in {"exited", "aborted"} THEN qexit
                              ELSE [qexit EXCEPT ![pid] = SIGQUIT]
                  /\ pwait' = pid
                  /\ ppc' = "reap"
                  /\ pstatus' = pstatus
  /\ UNCHANGED <<pres, pexit, body_count, pipe, fifo, fifoEnd, qpc, qargs,
                 qi, tpc, texit, tmanage, tprinted, pclosed, pdone, psig>>
  /\ UNCHANGED <<shmVars, sockVars, wire, got>>

\* pipe_cleanup and collect_computes of manage: waitpid, compute_pids[i] = -1
PipeReap ==
  /\ ppc = "reap"
  /\ qpc[pwait] \in {"exited", "aborted"}
  /\ pres' = [pres EXCEPT !.compute_pids = Collected(@, pwait)]
  /\ pwait' = -1
  /\ ppc' = "collect"
  /\ UNCHANGED <<pexit, body_count, pstatus, pipe, fifo, fifoEnd, qpc, qargs,
                 qi, qexit, tpc, texit, tmanage, tprinted, pclosed, pdone, psig>>
  /\ UNCHANGED <<shmVars, sockVars, wire, got>>

\* handle_signal of manage p: exit_status = sig.  An open or a waitpid that
\* is already waiting fails with EINTR: pipe_init returns false and main
\* calls collect_computes; pipe_report goes back to the top of its loop.
PipeManageSignal ==
  /\ ppc \in {"open", "loop", "wait"}
  /\ psig < MaxSignals
  /\ psig' = psig + 1
  /\ \E sig \in Signals : pexit' = sig
  /\ \E interrupted \in BOOLEAN :
       /\ interrupted => \/ ppc = "open" /\ fifoEnd = "none"
                         \/ ppc = "wait" /\ qpc[pwait] \notin {"exited", "aborted"}
       /\ ppc' = IF ~interrupted THEN ppc
                 ELSE IF ppc = "open" THEN "collect" ELSE "loop"
       /\ pwait' = IF interrupted THEN -1 ELSE pwait
  /\ UNCHANGED <<pres, body_count, pstatus, pipe, fifo, fifoEnd, qpc, qargs,
                 qi, qexit, tpc, texit, tmanage, tprinted, pclosed, pdone>>
  /\ UNCHANGED <<shmVars, sockVars, wire, got>>

\* send_packet of compute p on its standard output: EPIPE once manage has
\* closed the read end of the pipe
WritePipe(pp, p) ==
  IF ppc \in {"collect", "reap", "exited"} THEN pp ELSE Append(pp, p)

\* pipe_loop: assert(start > 0), assert(end > start); a failed assert aborts
PipeBegin(q) ==
  /\ qpc[q] = "start"
  /\ IF qargs[q].start > 0 /\ qargs[q].end > qargs[q].start
     THEN /\ qpc' = [qpc EXCEPT ![q] = "loop"]
          /\ qi' = [qi EXCEPT ![q] = qargs[q].start]
     ELSE /\ qpc' = [qpc EXCEPT ![q] = "aborted"]
          /\ qi' = qi
  /\ UNCHANGED <<pres, ppc, pexit, body_count, pwait, pstatus, pipe, fifo,
                 fifoEnd, qargs, qexit, tpc, texit, tmanage, tprinted,
                 pclosed, pdone, psig>>
  /\ UNCHANGED <<shmVars, sockVars, wire, got>>

\* pipe_loop: the for loop from one test of exit_status up to the next
\* perfect number or the end of the range; a signal caught during the
\* iterations in between is seen by the test of the iteration this step
\* ends with
PipeTest(q) ==
  /\ qpc[q] = "loop"
  /\ IF qi[q] > qargs[q].end
     THEN /\ qpc' = [qpc EXCEPT ![q] = "after"]
          /\ UNCHANGED <<qi, pipe>>
     ELSE IF qexit[q] # EXIT_SUCCESS
     THEN /\ pipe' = WritePipe(pipe, PktClosed(q))
          /\ qpc' = [qpc EXCEPT ![q] = "after"]
          /\ qi' = qi
     ELSE LET n == NextPerfect(qi[q], qargs[q].end)
          IN  /\ pipe' = IF n = -1 THEN pipe ELSE WritePipe(pipe, PktPerfnum(n))
              /\ qi' = [qi EXCEPT ![q] = IF n = -1 THEN qargs[q].end + 1 ELSE n + 1]
              /\ qpc' = qpc
  /\ UNCHANGED <<pres, ppc, pexit, body_count, pwait, pstatus, fifo, fifoEnd,
                 qargs, qexit, tpc, texit, tmanage, tprinted, pclosed, pdone,
                 psig>>
  /\ UNCHANGED <<shmVars, sockVars, wire, got>>

\* pipe_loop after the for loop: DONE with the pid if exit_status is still
\* EXIT_SUCCESS; then main calls exit(exit_status)
PipeFinish(q) ==
  /\ qpc[q] = "after"
  /\ pipe' = IF qexit[q] = EXIT_SUCCESS
             THEN WritePipe(pipe, [id |-> "DONE", pid |-> q]) ELSE pipe
  /\ qpc' = [qpc EXCEPT ![q] = "exited"]
  /\ UNCHANGED <<pres, ppc, pexit, body_count, pwait, pstatus, fifo, fifoEnd,
                 qargs, qi, qexit, tpc, texit, tmanage, tprinted, pclosed,
                 pdone, psig>>
  /\ UNCHANGED <<shmVars, sockVars, wire, got>>

\* handle_signal of compute p: exit_status = sig
PipeComputeSignal(q) ==
  /\ qpc[q] \in {"start", "loop", "after"}
  /\ qexit[q] = EXIT_SUCCESS
  /\ psig < MaxSignals
  /\ psig' = psig + 1
  /\ \E sig \in Signals : qexit' = [qexit EXCEPT ![q] = sig]
  /\ UNCHANGED <<pres, ppc, pexit, body_count, pwait, pstatus, pipe, fifo,
                 fifoEnd, qpc, qargs, qi, tpc, texit, tmanage, tprinted,
                 pclosed, pdone>>
  /\ UNCHANGED <<shmVars, sockVars, wire, got>>

\* report p: pipe_init: load_pid_file (manage wrote its pid with snprintf)
\* and open(FIFO_PATH, O_RDONLY), which returns as manage waits in its open;
\* without the pid file or the FIFO report exits with EXIT_FAILURE
PipeReportStart ==
  /\ tpc = "start"
  /\ ppc \in {"init", "open", "collect", "reap", "exited"}
  /\ IF ppc = "open"
     THEN /\ tmanage' = Atoi(Snprintf11(ManagePid))
          /\ fifoEnd' = "open"
          /\ tpc' = "read"
     ELSE /\ tpc' = "exited"
          /\ UNCHANGED <<tmanage, fifoEnd>>
  /\ UNCHANGED <<pres, ppc, pexit, body_count, pwait, pstatus, pipe, fifo,
                 qpc, qargs, qi, qexit, texit, tprinted, pclosed, pdone, psig>>
  /\ UNCHANGED <<shmVars, sockVars, wire, got>>

\* a pipe_report of report that ends its loop on every CLOSED
PipeReportRecvAnyClosed ==
  /\ tpc = "read"
  /\ fifo # <<>>
  /\ LET p == Head(fifo)
         done == p.id \in {"DONE", "CLOSED"}
         leave == done \/ texit # EXIT_SUCCESS
     IN  /\ tprinted' = IF p.id = "PERFNUM" THEN Append(tprinted, p.perfnum)
                        ELSE tprinted
         /\ tpc' = IF leave THEN "exited" ELSE "read"
         /\ fifoEnd' = IF leave THEN "closed" ELSE fifoEnd
  /\ fifo' = Tail(fifo)
  /\ UNCHANGED <<pres, ppc, pexit, body_count, pwait, pstatus, pipe, qpc,
                 qargs, qi, qexit, texit, tmanage, pclosed, pdone, psig>>
  /\ UNCHANGED <<shmVars, sockVars, wire, got>>

\* pipe_report of report: get_packet returned a packet, the switch on
\* packet.id, then the loop condition and the test of exit_status; when the
\* loop ends pipe_cleanup closes the FIFO and main exits.  A read of 0 bytes
\* changes nothing and the loop goes on.
PipeReportRecv ==
  /\ tpc = "read"
  /\ fifo # <<>>
  /\ LET p == Head(fifo)
         done == \/ p.id = "DONE"
                 \/ p.id = "CLOSED" /\ p.pid = tmanage
         leave == done \/ texit # EXIT_SUCCESS
     IN  /\ tprinted' = IF p.id = "PERFNUM" THEN Append(tprinted, p.perfnum)
                        ELSE tprinted
         /\ tpc' = IF leave THEN "exited" ELSE "read"
         /\ fifoEnd' = IF leave THEN "closed" ELSE fifoEnd
  /\ fifo' = Tail(fifo)
  /\ UNCHANGED <<pres, ppc, pexit, body_count, pwait, pstatus, pipe, qpc,
                 qargs, qi, qexit, texit, tmanage, pclosed, pdone, psig>>
  /\ UNCHANGED <<shmVars, sockVars, wire, got>>

\* handle_signal of report p: exit_status = sig.  A read that is already
\* waiting fails with EINTR, the loop ends at its next test, pipe_cleanup
\* closes the FIFO and main exits.
PipeReportSignal ==
  /\ tpc = "read"
  /\ texit = EXIT_SUCCESS
  /\ psig < MaxSignals
  /\ psig' = psig + 1
  /\ \E sig \in Signals : texit' = sig
  /\ \E interrupted \in BOOLEAN :
       /\ interrupted => fifo = <<>>
       /\ tpc' = IF interrupted THEN "exited" ELSE tpc
       /\ fifoEnd' = IF interrupted THEN "closed" ELSE fifoEnd
  /\ UNCHANGED <<pres, ppc, pexit, body_count, pwait, pstatus, pipe, fifo,
                 qpc, qargs, qi, qexit, tmanage, tprinted, pclosed, pdone>>
  /\ UNCHANGED <<shmVars, sockVars, wire, got>>

PipeNext ==
  \/ PipeSpawn
  \/ PipeOpen
  \/ PipeLoop
  \/ PipeWait
  \/ PipeCleanup
  \/ PipeCollect
  \/ PipeReap
  \/ PipeManageSignal
  \/ \E q \in Pids : PipeBegin(q)
  \/ \E q \in Pids : PipeTest(q)
  \/ \E q \in Pids : PipeFinish(q)
  \/ \E q \in Pids : PipeComputeSignal(q)
  \/ PipeReportStart
  \/ PipeReportRecv
  \/ PipeReportSignal

PipeInit ==
  /\ \E limit \in PipeLimits : \E nprocs \in PipeProcs : PipeStart(limit, nprocs)
  /\ ShmOff
  /\ SockOff
  /\ PktOff

SpecPipes == PipeInit /\ [][PipeNext]_vars

\* the steps of manage p, of compute q and of report p
PipeManageStep ==
  PipeSpawn \/ PipeOpen \/ PipeLoop \/ PipeWait \/ PipeCleanup \/ PipeCollect \/ PipeReap
PipeComputeStep(q) == PipeBegin(q) \/ PipeTest(q) \/ PipeFinish(q)
PipeReportStep == PipeReportStart \/ PipeReportRecv

\* every process that is started runs whenever it can; signals come or not
PipeFair ==
  /\ WF_vars(PipeManageStep)
  /\ \A q \in Pids : WF_vars(PipeComputeStep(q))
  /\ WF_vars(PipeReportStep)

SpecPipesFair == PipeInit /\ [][PipeNext]_vars /\ PipeFair

(***************************************************************************)
(* packets.c: send_packet and get_packet on one stream.  A packet is a     *)
(* union packet of three 4-byte words: id and up to two fields.            *)
(***************************************************************************)

\* get_packet(fd, p) when read returns the first n of the words that wait:
\* memset(p, 0, sizeof(union packet)), then the one call
\* read(fd, p, sizeof(union packet)), whose return value get_packet returns
get_packet(words, n) ==
  [n |-> n, p |-> [k \in 1..3 |-> IF k <= n THEN words[k] ELSE 0]]

\* send_packet of the peer: write(fd, p, sizeof(union packet)) with a DONE,
\* a RANGE or a PERFNUM packet (ids 1, 4, 5 of enum packet_id); at most
\* MaxInFlight packets wait unread
PktWrite ==
  /\ Len(wire) + 3 <= 3 * MaxInFlight
  /\ \E rec \in {<<1, 7, 0>>, <<4, 1, NASSIGN>>, <<5, 6, 0>>} :
       wire' = wire \o rec
  /\ got' = got
  /\ UNCHANGED <<shmVars, sockVars, pipeVars>>

\* a call of get_packet with words waiting: read returns what has arrived
\* so far, from one word up to a whole packet
PktRead ==
  /\ wire # <<>>
  /\ \E n \in 1..3 :
       /\ n <= Len(wire)
       /\ got' = get_packet(wire, n)
       /\ wire' = SubSeq(wire, n + 1, Len(wire))
  /\ UNCHANGED <<shmVars, sockVars, pipeVars>>

PktInit == ShmOff /\ SockOff /\ PipeOff /\ PktOff

SpecPkt == PktInit /\ [][PktWrite \/ PktRead]_vars

(***************************************************************************)
(* Properties of the shared-memory method                                  *)
(***************************************************************************)

\* the values stored in the result table
Recorded == {perfect_numbers[i] : i \in DOMAIN perfect_numbers} \ {0}

\* the perfect numbers of [1, limit]
PerfectUpTo(limit) == {n \in 1..limit : is_perfect_number(n)}

RECURSIVE SumTested(_, _)
SumTested(procs, i) ==
  IF i = NPROCS THEN 0 ELSE procs[i].tested + SumTested(procs, i + 1)

\* C1: no candidate is returned by next_test twice, to two compute
\* processes or twice to the same one.
C1_ReturnedOnce == \A n \in DOMAIN nreturned : nreturned[n] <= 1

\* C4: every value that next_test returns and shmem_loop then tests lies in
\* [1, limit].
C4_InRange ==
  \A w \in Workers : cpc[w] = "test" => ctest[w] \in 1..shmLimit

\* C8: every slot of the result table is zero or positive, shmem_report
\* writes the lowest empty slot only, and a slot that is non-zero never
\* changes.
C8_SlotDiscipline ==
  [][/\ \A i \in DOMAIN perfect_numbers : perfect_numbers'[i] >= 0
     /\ \A i \in DOMAIN perfect_numbers :
          perfect_numbers[i] # 0 => perfect_numbers'[i] = perfect_numbers[i]
     /\ \A i \in DOMAIN perfect_numbers :
          perfect_numbers'[i] # perfect_numbers[i]
            => i = FirstEmptySlot(perfect_numbers)]_vars

\* C9: when every compute process has run to the end with no signal
\* delivered, the result table holds exactly the perfect numbers of
\* [1, limit]: none for 1, {6} for 6, {6, 28} for 28.
C9_ResultSet ==
  (/\ \A w \in Solo : cpc[w] = "exited"
   /\ nsig = 0) => Recorded = PerfectUpTo(shmLimit)

\* C10: with several compute processes started together and no signal
\* delivered, once all of them have exited the tested counts of the roster
\* add up to the limit.
C10_TestedSum ==
  (\A w \in Workers : cpc[w] = "exited")
    => SumTested(processes, 0) = shmLimit

\* C17: when manage m shuts down, the step of shmem_cleanup delivers SIGINT
\* to every process whose pid stands in a slot of the roster, before the
\* object is unlinked.
C17_TeardownSignal ==
  [][(mpc = "loop" /\ mpc' = "exited") =>
       /\ live /\ ~live'
       /\ \A i \in DOMAIN processes :
            processes[i].pid # -1 => cexit'[processes[i].pid] = SIGINT]_vars

\* C18: a call of shmem_load changes nothing of the object; it fails when
\* the object does not exist, holds no limit or has a size other than the one
\* that follows from the limit in its header; on the object manage has set
\* up for a limit of at least 1 it succeeds with the pointers of manage.
C18_LoadValidates ==
  [][\A w \in Workers :
       (cpc[w] = "init" /\ cpc'[w] # "init") =>
         /\ UNCHANGED <<live, shmSize, shmLimit, region, bitmapSem,
                        perfect_numbers, processes>>
         /\ (~live \/ shmSize < SizeofInt \/ shmSize # InitTotalSize(shmLimit))
              => (cpc'[w] = "exited" /\ cres'[w] = cres[w])
         /\ (mpc = "loop" /\ mlimit >= 1)
              => (cpc'[w] = "insert" /\ cres'[w] = mres)]_vars

\* C18 witness: for a limit whose bitmap takes more than one byte, one
\* compute process has loaded the object with the pointers of manage and
\* another was turned away
C18_Witness ==
  /\ mpc = "loop"
  /\ mlimit >= 8
  /\ \E w, u \in Workers :
       /\ cpc[w] = "insert" /\ cres[w] = mres
       /\ cpc[u] = "exited" /\ cres[u] = NoRes

\* C19: while the object exists, a bit that reads 1 in the bytes next_test
\* scans, from res->bitmap up to res->perfect_numbers, reads 1 ever after.
C19_BitsStaySet ==
  [][(live /\ live') =>
       \A k \in DOMAIN region : region[k] = 1 => region'[k] = 1]_vars

\* the slots of the roster that hold the pid of compute w
SlotsOf(w) == {i \in DOMAIN processes : processes[i].pid = w}

\* C20: the pid of a compute process stands in at most one slot of the
\* roster.
C20_OneSlot == \A w \in Workers : Cardinality(SlotsOf(w)) <= 1

\* C20 witness: two compute processes are at work, each with its pid in a
\* slot of its own
C20_Witness ==
  /\ \A w \in 1..2 : Running(w) /\ cpc[w] # "insert" /\ Cardinality(SlotsOf(w)) = 1
  /\ SlotsOf(1) # SlotsOf(2)

\* C21: manage m started with the limit 0 stops before it creates the shared
\* memory object: no object exists, and manage is not in its loop.
C21_ZeroRejected ==
  (mpc # "off" /\ mlimit = 0) => (~live /\ shmSize = 0 /\ mpc # "loop")

\* C23: both semaphores hold 0 or 1, at most one compute process is between
\* sem_wait and sem_post of bitmap_sem in next_test, and at most one is
\* between sem_wait and sem_post of perfect_numbers_sem in shmem_report.
C23_BinaryAndExclusive ==
  /\ bitmapSem \in {0, 1}
  /\ \A k \in SemBitsOf(shmLimit) \ {SemBase(shmLimit)} : region[k] = 0
  /\ Cardinality({w \in Workers : cpc[w] = "locked"}) <= 1
  /\ Cardinality({w \in Workers :
                    cpc[w] \in {"rep_scan", "rep_write", "rep_post"}}) <= 1

\* C24: a call of shmem_report that holds perfect_numbers_sem posts it
\* before it returns, with the value stored or with the table full: at the
\* return the counter is one above its value while the semaphore was held.
C24_AlwaysReleased ==
  [][\A w \in Workers :
       (cpc[w] \in {"rep_scan", "rep_post"} /\ cpc'[w] = "count" /\ PerfSemRoom)
         => region' = SemInc(region, shmLimit)]_vars

\* C25: two compute processes that have both taken a slot of the roster and
\* are still running hold different slots, and the slot of each holds its
\* own pid.
C25_OwnSlot ==
  \A w \in Workers :
    (Running(w) /\ cpc[w] \notin {"insert", "insert_write"}) =>
      /\ processes[cp[w]].pid = w
      /\ \A u \in Workers \ {w} :
           (Running(u) /\ cpc[u] \notin {"insert", "insert_write"})
             => cp[u] # cp[w]

\* C35: a compute process that goes from its while loop to its exit sets
\* the pid of the slot p points to to -1 in that step; the test of
\* exit_status at the end of the loop body takes it out of the loop exactly
\* when a signal was caught, and once out of the loop it claims nothing.
C35_LeavesRoster ==
  /\ [][\A w \in Workers :
          (cpc[w] = "leave" /\ cpc'[w] = "exited")
            => processes'[cp[w]].pid = -1]_vars
  /\ [][\A w \in Workers :
          (cpc[w] \in {"test", "count"} /\ cpc'[w] \in {"scan", "leave"})
            => (cpc'[w] = "leave" <=> cexit[w] # EXIT_SUCCESS)]_vars
  /\ [][\A w \in Workers :
          cpc[w] = "leave"
            => (cpc'[w] \in {"leave", "exited"} /\ region' = region)]_vars

\* C35 witness: a compute process that caught a signal has left with
\* candidates unclaimed, and the slot it had taken holds -1
C35_Witness ==
  \E w \in Workers :
    /\ cpc[w] = "exited"
    /\ cexit[w] \in Signals
    /\ mpc = "loop"
    /\ processes[cp[w]].pid = -1
    /\ processes[cp[w]].tested >= 1
    /\ \E k \in 0..(shmLimit - 1) : region[k] = 0

\* C36: whenever a bit of the bitmap goes from 0 to 1, the compute process
\* goes on to test the candidate of that bit; the value a compute process
\* tests is one whose bit is set; and every test is followed by p->tested++.
\* This holds also when a semaphore operation fails or a signal is caught.
C36_ClaimedTested ==
  /\ [][\A k \in 0..(SemBase(shmLimit) - 1) :
          (region[k] = 0 /\ region'[k] = 1)
            => \E w \in Workers : cpc'[w] = "test" /\ ctest'[w] = k + 1]_vars
  /\ [](\A w \in Workers :
          (Running(w) /\ cpc[w] = "test")
            => (ctest[w] >= 1 /\ region[ctest[w] - 1] = 1))
  /\ [][\A w \in Workers :
          (cpc[w] \in {"test", "count"} /\ cpc'[w] \in {"scan", "leave"})
            => processes'[cp[w]].tested = processes[cp[w]].tested + 1]_vars

\* C37: what report m displays from the region as it is: next_test returns
\* -1 ("Testing complete") exactly when every candidate of 1..limit is
\* claimed; otherwise it returns the smallest candidate of 1..limit that is
\* not claimed.
C37_ProgressLine ==
  LET next == report_next_test(region)
      unclaimed == {n \in 1..shmLimit : region[n - 1] = 0}
  IN  /\ next = -1 <=> unclaimed = {}
      /\ next # -1 => (next \in unclaimed /\ \A m \in unclaimed : next <= m)

(***************************************************************************)
(* Properties of the socket method                                         *)
(***************************************************************************)

\* the numbers of the PERFNUM packets of a sequence of packets, in order
RECURSIVE PerfnumsOf(_)
PerfnumsOf(ps) ==
  IF ps = <<>> THEN <<>>
  ELSE IF Head(ps).id = "PERFNUM"
       THEN <<Head(ps).perfnum>> \o PerfnumsOf(Tail(ps))
       ELSE PerfnumsOf(Tail(ps))

\* the numbers manage has sent to the client r: those r has printed and
\* those still on their way
Delivered(r) == rprinted[r] \o PerfnumsOf(toCli[r])

\* C2: the RANGE packets manage has sent are pairwise disjoint.
C2_RangesDisjoint ==
  \A i, j \in DOMAIN granted :
    i # j => \/ granted[i].end < granted[j].start
             \/ granted[j].end < granted[i].start

\* C2 witness: two ranges have been granted
C2_Witness == Len(granted) >= 2 /\ C2_RangesDisjoint

\* C5: every RANGE packet sent ends at min(highest_assigned + NASSIGN, limit),
\* so no range ends above the limit.
C5_GrantClipped ==
  \A i \in DOMAIN granted :
    /\ granted[i].end <= res.limit
    /\ granted[i].end = IF granted[i].start - 1 + NASSIGN < res.limit
                        THEN granted[i].start - 1 + NASSIGN ELSE res.limit

\* C7: while a report process is the registered notify client and has its
\* connection open, the numbers sent to it are the numbers manage has
\* received, each once and in the order received: the ones that arrived
\* before its NOTIFY by the replay, the later ones by the forward.
C7_ExactlyOnce ==
  \A r \in Reporters :
    (res.notify = r /\ ~cclosed[r]) => Delivered(r) = res.perfnums

\* C7 witness: a registered report process has printed every number manage
\* received, at least one of them replayed and at least one forwarded
C7_Witness ==
  \E r \in Reporters :
    /\ res.notify = r /\ ~cclosed[r]
    /\ nreplayed >= 1
    /\ Len(res.perfnums) > nreplayed
    /\ rprinted[r] = res.perfnums

\* the clients that have a slot in the table of manage
InTable == {res.clients[i] : i \in DOMAIN res.clients} \ {-1}

\* C11: a round of sock_report in which manage reads a KILL packet is the
\* last one, whatever else is readable in that round: manage goes on to
\* sock_cleanup, which sends CLOSED(PID_SERVER) to every client of the table
\* and closes every descriptor.
C11_KillEndsLoop ==
  [][/\ (\E c \in Cl : /\ toSrv[c] # <<>>
                        /\ Head(toSrv[c]).id = "KILL"
                        /\ toSrv'[c] = Tail(toSrv[c]))
          => spc' = "cleanup"
     /\ (spc = "cleanup" /\ spc' = "exited")
          => \A c \in InTable :
               /\ sclosed'[c]
               /\ ~cclosed[c] =>
                    toCli'[c] = Append(toCli[c], PktClosed(PID_SERVER))]_vars

\* C12: a report process started with -k that is connected to a running
\* manage, which has not closed the connection, sends KILL before it exits,
\* whether or not another report process is the notify client.
C12_KillSent ==
  [][\A r \in Reporters :
       (/\ kpc[r] = "init_recv"
        /\ rkill[r]
        /\ spc = "select"
        /\ ~sclosed[r]
        /\ kpc'[r] = "exited")
         => toSrv'[r] = Append(toSrv[r], Pkt("KILL"))]_vars

\* C13: once the handler of manage has recorded a signal, manage leaves the
\* loop of sock_report and runs sock_cleanup, wherever in the loop the
\* signal arrived and whether or not a client sends anything afterwards.
C13_SignalShutsDown ==
  (sexit # EXIT_SUCCESS) ~> (spc \in {"cleanup", "exited"})

\* the reporters that have their ACCEPT, sent or already read, and whose
\* descriptor manage still holds in its table
Subscribed ==
  {r \in Reporters \cap InTable :
     \/ \E k \in DOMAIN toCli[r] : toCli[r][k].id = "ACCEPT"
     \/ kpc[r] \in {"read", "close"}}

\* the packets still on their way to client c that are neither the REFUSE
\* nor the CLOSED with which sock_cleanup of manage ends a connection
Forwards(c) ==
  {k \in DOMAIN toCli[c] :
     /\ toCli[c][k].id # "REFUSE"
     /\ ~(toCli[c][k].id = "CLOSED" /\ toCli[c][k].pid = PID_SERVER)}

\* C16: at most one connection is subscribed at a time: every reporter that
\* holds an ACCEPT on a connection manage still serves is res->notify.  A
\* reporter whose NOTIFY came while another was registered gets one REFUSE
\* and nothing else, never becomes res->notify and prints nothing.
C16_SingleSubscriber ==
  /\ Subscribed \subseteq {res.notify}
  /\ \A r \in refused :
       /\ res.notify # r
       /\ Forwards(r) = {}
       /\ Cardinality({k \in DOMAIN toCli[r] : toCli[r][k].id = "REFUSE"}) <= 1
       /\ rprinted[r] = <<>>

\* C16 witness: one reporter was refused and has exited while the other is
\* registered and has printed a number forwarded to it
C16_Witness ==
  /\ res.notify \in Reporters
  /\ rprinted[res.notify] # <<>>
  /\ \E r \in refused : r # res.notify /\ kpc[r] = "exited"

\* C22: a client process of the socket method that has caught SIGQUIT,
\* SIGHUP or SIGINT and has ended exits with status 0.
C22_SignalExitZero ==
  /\ \A c \in Cl :
       (kpc[c] = "exited" /\ kexit[c] \in Signals) => kstatus[c] = 0

\* C26: once manage has set res->done with a reporter registered, which by
\* then has been sent DONE, manage receives no further PERFNUM.
C26_DoneIsFinal ==
  [][(res.done /\ res.notify # -1) => res'.perfnums = res.perfnums]_vars

\* C27: a compute process that has exited after a signal while a RANGE
\* manage granted to it was never read, so that none of its numbers was
\* tested, has sent CLOSED(PID_CLIENT): the packet is on its way to manage or
\* res->missed_some is set, unless manage had closed the connection.
C27_AbandonAnnounced ==
  \A w \in SockWorkers :
    (/\ kpc[w] = "exited"
     /\ kexit[w] \in Signals
     /\ \E k \in DOMAIN toCli[w] : toCli[w][k].id = "RANGE")
      => \/ res.missed_some
         \/ \E k \in DOMAIN toSrv[w] : toSrv[w][k] = PktClosed(PID_CLIENT)
         \/ sclosed[w]

\* C28: when the NOTIFY of a reporter is the only packet manage has to
\* serve and no reporter is registered, the reporter is sent, in this
\* order: ACCEPT; CLOSED(PID_CLIENT) exactly if a CLOSED of a compute
\* process was received before; one PERFNUM for each stored number, in the
\* order they were received; DONE exactly if res->done is set.
C28_ReplyOrder ==
  [][\A r \in Reporters :
       (/\ spc = "select" /\ backlog = <<>> /\ SockReady = {r}
        /\ toSrv[r] # <<>> /\ Head(toSrv[r]).id = "NOTIFY"
        /\ res.notify = -1 /\ ~cclosed[r]
        /\ toSrv'[r] = Tail(toSrv[r]))
         => toCli'[r] =
              toCli[r]
                \o <<[id |-> "ACCEPT"]>>
                \o (IF res.missed_some
                    THEN <<[id |-> "CLOSED", pid |-> PID_CLIENT]>> ELSE <<>>)
                \o [i \in 1..Len(res.perfnums) |->
                      [id |-> "PERFNUM", perfnum |-> res.perfnums[i]]]
                \o (IF res.done THEN <<[id |-> "DONE"]>> ELSE <<>>)]_vars

\* C28 witness: a reporter that registered after the work was done holds the
\* reply ACCEPT, three numbers in the order found, DONE
C28_Witness ==
  \E r \in Reporters :
    /\ kpc[r] = "init_recv"
    /\ res.notify = r
    /\ toCli[r] = <<Pkt("ACCEPT"), PktPerfnum(6), PktPerfnum(28),
                    PktPerfnum(496), Pkt("DONE")>>

\* C29: when the DONE of a compute process is the only packet manage has to
\* serve, the process is sent exactly one packet: RANGE from
\* highest_assigned + 1 when highest_assigned is below the limit, REFUSE
\* otherwise; with REFUSE res->done is set and the registered reporter is
\* sent DONE, and nobody else is sent anything.  In every step
\* highest_assigned does not decrease, and once res->done is set it stays set
\* and no RANGE is granted.
C29_DoneReply ==
  /\ [][\A w \in SockWorkers :
          (/\ spc = "select" /\ backlog = <<>> /\ SockReady = {w}
           /\ toSrv[w] # <<>> /\ Head(toSrv[w]).id = "DONE"
           /\ ~cclosed[w]
           /\ toSrv'[w] = Tail(toSrv[w]))
            => LET more == res.highest_assigned < res.limit
                   reply == IF more
                            THEN [id |-> "RANGE",
                                  start |-> res.highest_assigned + 1,
                                  end |-> res.highest_assigned + NASSIGN]
                            ELSE [id |-> "REFUSE"]
                   told == IF ~more /\ res.notify # -1 THEN {res.notify}
                           ELSE {}
               IN  /\ toCli'[w] = Append(toCli[w], reply)
                   /\ res'.done = (res.done \/ ~more)
                   /\ \A c \in told :
                        cclosed[c] \/ toCli'[c] = Append(toCli[c], [id |-> "DONE"])
                   /\ \A c \in Cl \ ({w} \cup told) : toCli'[c] = toCli[c]]_vars
  /\ [][/\ res'.highest_assigned >= res.highest_assigned
        /\ res.done => (res'.done /\ granted' = granted)]_vars
  /\ [](res.done => res.highest_assigned >= res.limit)

\* C29 witness: a compute process holds REFUSE, ranges were granted before,
\* and the registered reporter was sent DONE last
C29_Witness ==
  \E w \in SockWorkers, r \in Reporters :
    /\ toCli[w] # <<>> /\ toCli[w][Len(toCli[w])] = Pkt("REFUSE")
    /\ res.done /\ res.notify = r
    /\ Len(granted) >= 2
    /\ toCli[r] # <<>> /\ toCli[r][Len(toCli[r])] = Pkt("DONE")

\* C30: while manage runs its loop, allfds holds the listening socket and
\* the descriptors stored in the client table and nothing else; a connection
\* accepted when the table has no free slot is closed and is in neither.
C30_AllfdsIsTable ==
  spc \in {"select", "accept"} =>
    /\ res.allfds = {res.listen} \cup InTable
    /\ \A c \in Cl : (sclosed[c] /\ c \notin InTable) => c \notin res.allfds

\* C31: res->notify is -1 or the descriptor of a client that is in the table
\* and that manage has not closed; when manage closes the connection of the
\* registered reporter, the registration and the table entry go with it; and
\* with nobody registered, a NOTIFY that is the only packet to serve is
\* accepted.
C31_SubscriberValid ==
  /\ [](res.notify = -1 \/ (res.notify \in InTable /\ ~sclosed[res.notify]))
  /\ [][\A r \in Reporters :
          (res.notify = r /\ ~sclosed[r] /\ sclosed'[r])
            => (res'.notify # r /\ r \notin InTable')]_vars
  /\ [][\A r \in Reporters :
          (/\ spc = "select" /\ backlog = <<>> /\ SockReady = {r}
           /\ toSrv[r] # <<>> /\ Head(toSrv[r]).id = "NOTIFY"
           /\ res.notify = -1
           /\ toSrv'[r] = Tail(toSrv[r]))
            => res'.notify = r]_vars

\* C31 witness: a reporter that was registered (it printed a number) has
\* left and manage has closed its connection while it still runs; another
\* reporter is registered now
C31_Witness ==
  \E r1 \in Reporters :
    \E r2 \in Reporters \ {r1} :
      /\ rprinted[r1] # <<>> /\ sclosed[r1] /\ spc = "select"
      /\ res.notify = r2

\* C39: when a packet with an id manage has no case for is the only packet
\* it has to serve, manage takes it from the connection, sends nothing,
\* closes nothing, leaves res as it is and stays in its loop.
C39_StrayIgnored ==
  [][\A c \in Cl :
       (/\ spc = "select" /\ backlog = <<>> /\ SockReady = {c}
        /\ sexit = EXIT_SUCCESS
        /\ toSrv[c] # <<>>
        /\ Head(toSrv[c]).id \in
             {"NULL", "RANGE", "ACCEPT", "REFUSE", "OUTSIDE"}
        /\ toSrv'[c] = Tail(toSrv[c]))
         => /\ res' = res
            /\ toCli' = toCli
            /\ sclosed' = sclosed
            /\ granted' = granted
            /\ spc' = "select"]_vars

\* C39 witness: manage has taken the packet of a stray peer, the peer is
\* still in the table, manage is in its loop with results stored and a
\* reporter registered
C39_Witness ==
  \E c \in Cl :
    /\ kpc[c] = "stray" /\ toSrv[c] = <<>> /\ c \in InTable
    /\ spc = "select"
    /\ res.perfnums # <<>>
    /\ res.notify # -1

\* C40: a compute process whose connection manage has closed, or that has a
\* REFUSE or a CLOSED to read, exits in the end.
C40_WorkerEnds ==
  \A w \in Solo :
    (/\ kpc[w] \notin {"start", "exited"}
     /\ \/ sclosed[w]
        \/ \E k \in DOMAIN toCli[w] : toCli[w][k].id \in {"REFUSE", "CLOSED"})
      ~> (kpc[w] = "exited")

(***************************************************************************)
(* Properties of the pipe method                                           *)
(***************************************************************************)

\* the values of a range given to a compute process
RangeSet(a) == a.start..a.end

\* the numbers manage p has stored
PipeStored == {pres.perfnums[k] : k \in DOMAIN pres.perfnums}

\* C3: for 1 <= nprocs <= limit spawn_computes gives the first compute
\* [1, floor(limit/nprocs) + limit mod nprocs] and each later one the
\* floor(limit/nprocs) values after the end of the one before; the ranges
\* are pairwise disjoint and their union is [1, limit].
C3_PrePartition ==
  (ppc # "init" /\ 1 <= pres.nprocs /\ pres.nprocs <= pres.limit) =>
    LET N == pres.nprocs
        L == pres.limit
    IN  /\ qargs[1] = [start |-> 1, end |-> (L \div N) + (L % N)]
        /\ \A q \in 2..N :
             /\ qargs[q].start = qargs[q - 1].end + 1
             /\ qargs[q].end - qargs[q].start + 1 = L \div N
        /\ \A q, u \in 1..N : q # u => RangeSet(qargs[q]) \cap RangeSet(qargs[u]) = {}
        /\ UNION {RangeSet(qargs[q]) : q \in 1..N} = 1..L

\* C3 witness: three computes spawned for a limit they do not divide
C3_Witness ==
  /\ ppc # "init"
  /\ pres.nprocs = 3
  /\ pres.limit % pres.nprocs # 0
  /\ qargs[1].end = (pres.limit \div 3) + 1
  /\ qargs[3].end = pres.limit

\* C6: every perfect number of the range of a compute whose DONE manage has
\* handled is stored by then; so when the loop of pipe_report ends because
\* all nprocs computes reported DONE, with no CLOSED and no signal, every
\* perfect number of [1, limit] is stored.
C6_NoMissedResult ==
  /\ \A q \in pdone :
       {n \in PerfectUpTo(pres.limit) : n \in RangeSet(qargs[q])} \subseteq PipeStored
  /\ (/\ ppc \in {"cleanup", "collect", "reap", "exited"}
      /\ body_count = pres.nprocs
      /\ pclosed = {}
      /\ pexit = EXIT_SUCCESS) => PerfectUpTo(pres.limit) \subseteq PipeStored

\* C6 witness: two or more computes all reported DONE and two numbers are
\* stored
C6_Witness ==
  /\ ppc = "exited"
  /\ pres.nprocs >= 2
  /\ body_count = pres.nprocs
  /\ pclosed = {}
  /\ pexit = EXIT_SUCCESS
  /\ Cardinality(pdone) = pres.nprocs
  /\ PipeStored = {6, 28}

\* pipe_loop of compute: the packets of kind id with the pid of q that q has
\* written on the pipe: those still in the pipe and the one manage has read
TerminalSent(q, id) ==
  Cardinality({k \in DOMAIN pipe : pipe[k].id = id /\ pipe[k].pid = q})
    + (IF q \in (IF id = "DONE" THEN pdone ELSE pclosed) THEN 1 ELSE 0)

\* C14: a compute of the pipe method that has exited, while manage still
\* holds the read end of the pipe, has written exactly one terminal packet
\* with its pid: DONE when no signal was caught, CLOSED when one was caught,
\* wherever in its run the signal arrived.
C14_TerminalRecord ==
  \A q \in Pids :
    (ppc \in {"open", "loop", "wait", "cleanup"} /\ qpc[q] = "exited") =>
      IF qexit[q] = EXIT_SUCCESS
      THEN TerminalSent(q, "DONE") = 1 /\ TerminalSent(q, "CLOSED") = 0
      ELSE TerminalSent(q, "DONE") = 0 /\ TerminalSent(q, "CLOSED") = 1

\* pipe_report of manage: all nprocs compute processes have ended
AllComputesEnded ==
  \A q \in Pids : q <= pres.nprocs => qpc[q] \in {"exited", "aborted"}

\* C15: once all nprocs compute processes have ended while manage is in the
\* loop of pipe_report, manage leaves that loop.
C15_LoopEnds ==
  (ppc \in {"loop", "wait"} /\ AllComputesEnded)
    ~> (ppc \in {"cleanup", "collect", "reap", "exited"})

\* C32: a compute of the pipe method that manage started with nprocs <= limit
\* and that has ended without catching a signal has gone through its whole
\* range, a range of one value included, and has written DONE.
C32_RangeCovered ==
  \A q \in Pids :
    (/\ q <= pres.nprocs /\ pres.nprocs <= pres.limit
     /\ qpc[q] \in {"exited", "aborted"}
     /\ qexit[q] = EXIT_SUCCESS
     /\ ppc \in {"open", "loop", "wait", "cleanup"})
      => /\ qpc[q] = "exited"
         /\ qi[q] = qargs[q].end + 1
         /\ TerminalSent(q, "DONE") = 1

\* C33: pipe_cleanup of manage, with report reading the FIFO, writes one
\* packet to the FIFO: DONE with the pid of manage when exit_status is
\* EXIT_SUCCESS, CLOSED with the pid of manage when a signal was caught.
\* No packet with the pid of manage is written before, and nothing is
\* written to the FIFO afterwards.
C33_FinalRecord ==
  /\ [][(ppc = "cleanup" /\ ppc' # "cleanup" /\ fifoEnd = "open")
          => fifo' = Append(fifo,
                            [id |-> IF pexit = EXIT_SUCCESS THEN "DONE"
                                    ELSE "CLOSED",
                             pid |-> ManagePid])]_vars
  /\ [][(ppc \in {"collect", "reap", "exited"})
          => (ppc' \in {"collect", "reap", "exited"}
              /\ (fifo' = fifo \/ (fifo # <<>> /\ fifo' = Tail(fifo))))]_vars
  /\ [](ppc \in {"init", "open", "loop", "wait", "cleanup"}
          => \A k \in DOMAIN fifo :
               fifo[k].id \in {"DONE", "CLOSED"} => fifo[k].pid # ManagePid)

\* C33 witness: manage has left after a signal; the FIFO holds a forwarded
\* PERFNUM and, last, the CLOSED of manage
C33_Witness ==
  /\ ppc = "exited"
  /\ pexit # EXIT_SUCCESS
  /\ Len(fifo) >= 2
  /\ fifo[Len(fifo)] = [id |-> "CLOSED", pid |-> ManagePid]
  /\ \E k \in 1..(Len(fifo) - 1) : fifo[k].id = "PERFNUM"

\* C34: report of the pipe method, reading a packet with no signal caught:
\* DONE ends its loop, and so does CLOSED with the pid loaded from the pid
\* file; CLOSED with another pid prints no number and the loop goes on; a
\* PERFNUM is printed and the loop goes on.
C34_DisplayLoop ==
  [][(tpc = "read" /\ fifo # <<>> /\ fifo' = Tail(fifo)
      /\ texit = EXIT_SUCCESS)
       => LET p == Head(fifo)
          IN  CASE p.id = "DONE" -> tpc' = "exited" /\ tprinted' = tprinted
                [] p.id = "CLOSED" /\ p.pid = tmanage ->
                     tpc' = "exited" /\ tprinted' = tprinted
                [] p.id = "CLOSED" /\ p.pid # tmanage ->
                     tpc' = "read" /\ tprinted' = tprinted
                [] p.id = "PERFNUM" ->
                     tpc' = "read" /\ tprinted' = Append(tprinted, p.perfnum)
                [] OTHER -> tpc' = "read" /\ tprinted' = tprinted]_vars

\* C34 witness: report has read the CLOSED of a compute process, is still in
\* its loop, and a PERFNUM forwarded afterwards is next in the FIFO
C34_Witness ==
  /\ tpc = "read"
  /\ texit = EXIT_SUCCESS
  /\ fifo # <<>> /\ Head(fifo).id = "PERFNUM"
  /\ \E q \in pclosed :
       \A k \in DOMAIN fifo : fifo[k] # [id |-> "CLOSED", pid |-> q]

\* C38: get_packet returns the size of a whole packet or 0, never the size
\* of a part of one: a packet that arrives in pieces is not given to the
\* caller before it is complete.
C38_AllOrNothing == got.n \in {0, 3}

====
